---------------------------- MODULE Spec2Model ----------------------------
(***************************************************************************)
(* Belgian law ingestion pipeline: the rate-limited Justel fetcher, the    *)
(* Justel HTML parser (article splitter and markup cleaning), the record   *)
(* consolidator of the database builder and the three-stage ingestion      *)
(* orchestrator.                                                           *)
(*                                                                         *)
(* Text is modelled character by character: a string is a sequence of      *)
(* one-character strings.  A character outside ASCII is the atom "U<n>"     *)
(* with <n> its decimal UTF-16 code unit ("U233" is e-acute).               *)
(***************************************************************************)
EXTENDS Integers, Sequences, FiniteSets, TLC

VARIABLES
    \* cleanArticleHtml applied repeatedly to one fragment
    text,           \* the text as it stands (the input, then each output)
    prevText,       \* the text before the last application
    cleanPasses,    \* how many times cleanArticleHtml has been applied
    \* dedupeProvisions applied to one law's provisions
    seedProvisions, \* seed.provisions, the input
    deduped,        \* the list dedupeProvisions returned
    dedupeDone,     \* whether dedupeProvisions has run
    \* parseArticles applied to the markup of one text section
    textHtml,       \* textSection.innerHTML, the input
    parsedProvisions, \* the provisions parseArticles returned
    parsed,         \* whether parseArticles has run
    \* parseYearIndex applied to one year index page
    indexPage,      \* the document of the page, the input
    indexLang,      \* the lang argument
    indexEntries,   \* the entries parseYearIndex returned
    indexParsed,    \* whether parseYearIndex has run
    \* one CallTool request to the tool server
    call,           \* request.params: the name of the tool and its arguments
    db,             \* the database and the context the server was built with
    statements,     \* the SQL statements the request has run, in order
    response,       \* what the request handler returned
    \* one run of the ingestion pipeline: main and the three stages
    options,        \* the CliOptions of the run
    indexFile,      \* data/source/law-index.json
    seedFiles,      \* the documents of data/seed, one per file name
    pc,             \* where main stands: main, discovery, french, dutch,
                    \* done ('Done.' is logged), exit (process.exit(1))
    year,           \* the loop variable of runDiscovery
    allEntries,     \* allEntries of runDiscovery
    entries,        \* entries of main
    idx,            \* the position of a content loop in entries
    french,         \* processed and failed of runFrenchContent
    dutch,          \* processed, failed and skipped of runDutchContent
    \* the fetcher
    fpc,            \* where rateLimitedFetch stands: idle (no call), ratewait,
                    \* inflight, backoff, returned, thrown
    url,            \* the url of the call
    attempt,        \* the loop variable of rateLimitedFetch
    elapsed,        \* Date.now() - lastRequestTime, up to RATE_LIMIT_MS
    sinceRequest,   \* the time since the last request was issued, up to
                    \* RATE_LIMIT_MS
    gap,            \* the time between the last two requests issued, up to
                    \* RATE_LIMIT_MS
    outcomes,       \* the status of each attempt of the call, in order
    waits,          \* the backoff waits of the call, in order
    result,         \* what the call returned or threw
    \* the history of the run
    attemptedYears, \* the years fetchYearIndex was called for, in order
    fetchLog,       \* the kind of page each call of rateLimitedFetch asked for
    yearEntries,    \* what each attempted year added to allEntries
    before,         \* the counters and seed files when the entry in hand
                    \* was taken up
    handled         \* what became of the entry in hand: pending, written,
                    \* empty (no articles), caught (notfound when every
                    \* attempt was answered 404); none between stages

cleanVars == <<text, prevText, cleanPasses>>

dedupeVars == <<seedProvisions, deduped, dedupeDone>>

articleVars == <<textHtml, parsedProvisions, parsed>>

indexVars == <<indexPage, indexLang, indexEntries, indexParsed>>

serverVars == <<call, db, statements, response>>

unitVars == <<cleanVars, dedupeVars, articleVars, indexVars, serverVars>>

mainVars ==
    <<options, indexFile, seedFiles, pc, year, allEntries, entries, idx,
      french, dutch>>

fetchVars ==
    <<fpc, url, attempt, elapsed, sinceRequest, gap, outcomes, waits, result>>

ghostVars == <<attemptedYears, yearEntries, before, handled, fetchLog>>

pipeVars == <<mainVars, fetchVars, ghostVars>>

vars ==
    <<text, prevText, cleanPasses, seedProvisions, deduped, dedupeDone,
      textHtml, parsedProvisions, parsed,
      indexPage, indexLang, indexEntries, indexParsed,
      call, db, statements, response,
      options, indexFile, seedFiles, pc, year, allEntries, entries, idx,
      french, dutch,
      fpc, url, attempt, elapsed, sinceRequest, gap, outcomes, waits, result,
      attemptedYears, yearEntries, before, handled, fetchLog>>

----------------------------------------------------------------------------
(* Bounds of the model *)

\* fragments concatenated into one input of cleanArticleHtml
MaxFrags == 3

\* provisions in one input of dedupeProvisions
MaxProvisions == 3

\* article anchors, or plain-text pieces, in one input of parseArticles
MaxArticles == 3

\* a[href] elements in one input of parseYearIndex
MaxLinks == 3

\* years in the longest range a pipeline run discovers
MaxYears == 2

\* laws the portal lists over the years of a run
MaxLaws == 2

\* the largest --limit of a pipeline run
MaxLimit == 1

\* the latest day a request asks the law of
MaxDay == 3

\* the time a request takes, in milliseconds: a fast one and a slow one
FastMs == 100

SlowMs == 600

----------------------------------------------------------------------------
(* Characters and strings *)

UpperLetters ==
    <<"A","B","C","D","E","F","G","H","I","J","K","L","M",
      "N","O","P","Q","R","S","T","U","V","W","X","Y","Z">>

LowerLetters ==
    <<"a","b","c","d","e","f","g","h","i","j","k","l","m",
      "n","o","p","q","r","s","t","u","v","w","x","y","z">>

\* the case folding of the regular expressions' i flag and of toLowerCase
Lower(c) ==
    IF \E k \in 1..26 : UpperLetters[k] = c
    THEN LowerLetters[CHOOSE k \in 1..26 : UpperLetters[k] = c]
    ELSE c

LowerStr(s) == [k \in 1..Len(s) |-> Lower(s[k])]

Digits == <<"0","1","2","3","4","5","6","7","8","9">>

IsDigit(c) == \E k \in 1..10 : Digits[k] = c

DigitVal(c) == (CHOOSE k \in 1..10 : Digits[k] = c) - 1

\* the characters the regular expression class \s and String.trim remove
WhiteSpace ==
    {" ", "\t", "\n", "\r", "\f", "U11", "U160", "U5760", "U8232", "U8233",
     "U8239", "U8287", "U12288", "U65279"}
    \cup {"U" \o ToString(n) : n \in 8192..8202}

IsSpace(c) == c \in WhiteSpace

\* the printable ASCII characters, code 32 first (the grave accent, code 96,
\* is written as the atom "U96")
Ascii ==
    <<" ","!","\"","#","$","%","&","'","(",")","*","+",",","-",".","/",
      "0","1","2","3","4","5","6","7","8","9",":",";","<","=",">","?",
      "@","A","B","C","D","E","F","G","H","I","J","K","L","M","N","O",
      "P","Q","R","S","T","U","V","W","X","Y","Z","[","\\","]","^","_",
      "U96","a","b","c","d","e","f","g","h","i","j","k","l","m","n","o",
      "p","q","r","s","t","u","v","w","x","y","z","{","|","}","~">>

\* String.fromCharCode: the character of a code, taken modulo 2^16
FromCharCode(code) ==
    LET m == code % 65536
    IN  IF m \in 32..126 THEN Ascii[m - 31]
        ELSE IF m = 9 THEN "\t"
        ELSE IF m = 10 THEN "\n"
        ELSE IF m = 12 THEN "\f"
        ELSE IF m = 13 THEN "\r"
        ELSE "U" \o ToString(m)

\* parseInt(digits, 10)
ParseInt(ds) ==
    LET V[k \in 0..Len(ds)] ==
            IF k = 0 THEN 0 ELSE V[k - 1] * 10 + DigitVal(ds[k])
    IN  V[Len(ds)]

\* the concatenation of a sequence of strings
Concat(ss) ==
    LET C[k \in 0..Len(ss)] == IF k = 0 THEN <<>> ELSE C[k - 1] \o ss[k]
    IN  C[Len(ss)]

\* s.substring(from - 1) for a 1-based from
From(s, from) == SubSeq(s, from, Len(s))

\* whether the literal lit stands in s at position i (case-sensitive)
LitAt(s, i, lit) ==
    /\ i + Len(lit) - 1 <= Len(s)
    /\ \A k \in 1..Len(lit) : s[i + k - 1] = lit[k]

\* the same under the i flag; lit is given in lower case
LitAtCI(s, i, lit) ==
    /\ i + Len(lit) - 1 <= Len(s)
    /\ \A k \in 1..Len(lit) : Lower(s[i + k - 1]) = lit[k]

\* the first position >= i of s holding character c, 0 when there is none
FirstIdx(s, i, c) ==
    IF \E j \in i..Len(s) : s[j] = c
    THEN CHOOSE j \in i..Len(s) : s[j] = c /\ \A k \in i..(j - 1) : s[k] # c
    ELSE 0

\* the first position >= i of s whose character is not white space
\* (Len(s) + 1 when all the rest is)
SkipSpace(s, i) ==
    IF \E j \in i..Len(s) : ~IsSpace(s[j])
    THEN CHOOSE j \in i..Len(s) :
             ~IsSpace(s[j]) /\ \A k \in i..(j - 1) : IsSpace(s[k])
    ELSE Len(s) + 1

\* the first position >= i of s whose character is not a digit
SkipDigits(s, i) ==
    IF \E j \in i..Len(s) : ~IsDigit(s[j])
    THEN CHOOSE j \in i..Len(s) :
             ~IsDigit(s[j]) /\ \A k \in i..(j - 1) : IsDigit(s[k])
    ELSE Len(s) + 1

\* String.trim of a string s that is a value
TrimOf(s) ==
    IF \A k \in 1..Len(s) : IsSpace(s[k]) THEN <<>>
    ELSE LET a == SkipSpace(s, 1)
             b == CHOOSE j \in 1..Len(s) :
                      ~IsSpace(s[j]) /\ \A k \in (j + 1)..Len(s) : IsSpace(s[k])
         IN  SubSeq(s, a, b)

\* String.trim; the receiver is evaluated once
Trim(str) == CHOOSE out \in {TrimOf(s) : s \in {str}} : TRUE

\* String.split('\n') of a string s that is a value: its lines, in order
LinesOf(s) ==
    LET nl == {i \in 1..Len(s) : s[i] = "\n"}
        \* the position of the k-th line feed; 0 before the first line and
        \* Len(s) + 1 after the last
        Cut(k) == IF k = 0 THEN 0
                  ELSE IF k > Cardinality(nl) THEN Len(s) + 1
                  ELSE CHOOSE p \in nl : Cardinality({q \in nl : q < p}) = k - 1
    IN  [k \in 1..(Cardinality(nl) + 1) |-> SubSeq(s, Cut(k - 1) + 1, Cut(k) - 1)]

\* String.split('\n'); the receiver is evaluated once
SplitLines(str) == CHOOSE out \in {LinesOf(s) : s \in {str}} : TRUE

\* Array.join('\n') of a list ls that is a value
JoinOf(ls) ==
    LET J[k \in 0..Len(ls)] ==
            IF k = 0 THEN <<>>
            ELSE IF k = 1 THEN ls[1]
            ELSE J[k - 1] \o <<"\n">> \o ls[k]
    IN  J[Len(ls)]

\* Array.join('\n'); the receiver is evaluated once
JoinLines(list) == CHOOSE out \in {JoinOf(ls) : ls \in {list}} : TRUE

----------------------------------------------------------------------------
(* cleanArticleHtml: the regular expressions, in the order of the code *)

\* [^>]*> from position i of s on: the position after the first ">" (0: none)
TagClose(s, i) == IF FirstIdx(s, i, ">") > 0 THEN FirstIdx(s, i, ">") + 1 ELSE 0

\* /<A[^>]*>/gi
AnchorOpenEnd(s, i) ==
    IF LitAtCI(s, i, <<"<", "a">>) THEN TagClose(s, i + 2) ELSE 0

\* /<\/A>/gi
AnchorCloseEnd(s, i) ==
    IF LitAtCI(s, i, <<"<", "/", "a", ">">>) THEN i + 4 ELSE 0

\* \/?> at position k of s
SlashClose(s, k) ==
    IF k <= Len(s) /\ s[k] = ">" THEN k + 1
    ELSE IF k + 1 <= Len(s) /\ s[k] = "/" /\ s[k + 1] = ">" THEN k + 2
    ELSE 0

\* /<BR\s*\/?>/gi
BrEnd(s, i) ==
    IF LitAtCI(s, i, <<"<", "b", "r">>) THEN SlashClose(s, SkipSpace(s, i + 3))
    ELSE 0

\* h[1-6][^>]*> at position k of s, under the i flag
HeadingName(s, k) ==
    IF /\ k + 1 <= Len(s)
       /\ Lower(s[k]) = "h"
       /\ s[k + 1] \in {"1", "2", "3", "4", "5", "6"}
    THEN TagClose(s, k + 2)
    ELSE 0

\* /<\/?h[1-6][^>]*>/gi
HeadingTagEnd(s, i) ==
    IF i <= Len(s) /\ s[i] = "<"
    THEN IF i + 1 <= Len(s) /\ s[i + 1] = "/"
         THEN HeadingName(s, i + 2)
         ELSE HeadingName(s, i + 1)
    ELSE 0

\* /<[^>]+>/g
AnyTagEnd(s, i) ==
    IF i + 1 <= Len(s) /\ s[i] = "<" /\ s[i + 1] # ">"
    THEN TagClose(s, i + 2)
    ELSE 0

\* the named entities decoded, with their replacement, in the order of the code
Entities ==
    << <<(<<"&","n","b","s","p",";">>), " ">>,
       <<(<<"&","a","m","p",";">>), "&">>,
       <<(<<"&","l","t",";">>), "<">>,
       <<(<<"&","g","t",";">>), ">">>,
       <<(<<"&","q","u","o","t",";">>), "\"">>,
       <<(<<"&","e","a","c","u","t","e",";">>), "U233">>,
       <<(<<"&","e","g","r","a","v","e",";">>), "U232">>,
       <<(<<"&","a","g","r","a","v","e",";">>), "U224">>,
       <<(<<"&","a","c","i","r","c",";">>), "U226">>,
       <<(<<"&","e","c","i","r","c",";">>), "U234">>,
       <<(<<"&","i","c","i","r","c",";">>), "U238">>,
       <<(<<"&","o","c","i","r","c",";">>), "U244">>,
       <<(<<"&","u","c","i","r","c",";">>), "U251">>,
       <<(<<"&","u","g","r","a","v","e",";">>), "U249">>,
       <<(<<"&","c","c","e","d","i","l",";">>), "U231">>,
       <<(<<"&","l","a","q","u","o",";">>), "U171">>,
       <<(<<"&","r","a","q","u","o",";">>), "U187">> >>

\* /&nbsp;/g and the like: a literal, matched case-sensitively
LiteralEnd(s, i, lit) == IF LitAt(s, i, lit) THEN i + Len(lit) ELSE 0

\* ; at position k of s, after the digits that start at position from
RefClose(s, from, k) ==
    IF k > from /\ k <= Len(s) /\ s[k] = ";" THEN k + 1 ELSE 0

\* /&#\d+;/g
NumericRefEnd(s, i) ==
    IF LitAt(s, i, <<"&", "#">>) THEN RefClose(s, i + 2, SkipDigits(s, i + 2))
    ELSE 0

\* (m) => String.fromCharCode(parseInt(m.slice(2, -1), 10))
NumericRefChar(s, i, e) == <<FromCharCode(ParseInt(SubSeq(s, i + 2, e - 2)))>>

\* /[ \t]+/g
BlanksEnd(s, i) ==
    IF i <= Len(s) /\ s[i] \in {" ", "\t"}
    THEN IF \E j \in i..Len(s) : s[j] \notin {" ", "\t"}
         THEN CHOOSE j \in i..Len(s) :
                  s[j] \notin {" ", "\t"}
                  /\ \A k \in i..(j - 1) : s[k] \in {" ", "\t"}
         ELSE Len(s) + 1
    ELSE 0

\* the position after the last line feed of s[from..to] (0: it holds none)
LastLineFeed(s, from, to) ==
    IF \E j \in from..to : s[j] = "\n"
    THEN (CHOOSE j \in from..to :
              s[j] = "\n" /\ \A m \in (j + 1)..to : s[m] # "\n") + 1
    ELSE 0

\* /\n\s*\n/g: \s* is greedy and gives back to the last line feed of the run
BlankLinesEnd(s, i) ==
    IF i <= Len(s) /\ s[i] = "\n"
    THEN LastLineFeed(s, i + 1, SkipSpace(s, i + 1) - 1)
    ELSE 0

\* /\s+/g
SpaceRunEnd(s, i) ==
    IF i <= Len(s) /\ IsSpace(s[i]) THEN SkipSpace(s, i) ELSE 0

\* NAME='Art. under the i flag
AnchorName == <<"n","a","m","e","=","'","a","r","t",".">>

\* ([^']+)'[^>]*> from position r of s on: the position of the closing quote
\* (0: no match)
RefQuote(s, r) ==
    IF FirstIdx(s, r, "'") > r /\ FirstIdx(s, FirstIdx(s, r, "'") + 1, ">") > 0
    THEN FirstIdx(s, r, "'")
    ELSE 0

\* \s+NAME='Art\. ... from position k of s on, reached from position from
NameAttr(s, from, k) ==
    IF k > from /\ LitAtCI(s, k, AnchorName)
    THEN RefQuote(s, k + Len(AnchorName))
    ELSE 0

\* the position of the quote closing the reference of the article anchor that
\* starts at i (0: no article anchor starts at i)
ArticleAnchorQuote(s, i) ==
    IF LitAtCI(s, i, <<"<", "a">>)
    THEN NameAttr(s, i + 2, SkipSpace(s, i + 2))
    ELSE 0

\* articlePattern: /<A\s+NAME='Art\.([^']+)'[^>]*>/gi
ArticleAnchorEnd(s, i) ==
    IF ArticleAnchorQuote(s, i) > 0
    THEN FirstIdx(s, ArticleAnchorQuote(s, i) + 1, ">") + 1
    ELSE 0

\* match[1] of articlePattern for the anchor that starts at i
ArticleAnchorRef(s, i) ==
    SubSeq(s, SkipSpace(s, i + 2) + Len(AnchorName), ArticleAnchorQuote(s, i) - 1)

\* the position after the match of the expression re at position i of s
\* (0: no match at i)
MatchEnd(re, s, i) ==
    CASE re.kind = "anchorOpen" -> AnchorOpenEnd(s, i)
      [] re.kind = "anchorClose" -> AnchorCloseEnd(s, i)
      [] re.kind = "br" -> BrEnd(s, i)
      [] re.kind = "headingTag" -> HeadingTagEnd(s, i)
      [] re.kind = "anyTag" -> AnyTagEnd(s, i)
      [] re.kind = "literal" -> LiteralEnd(s, i, re.lit)
      [] re.kind = "numericRef" -> NumericRefEnd(s, i)
      [] re.kind = "blanks" -> BlanksEnd(s, i)
      [] re.kind = "blankLines" -> BlankLinesEnd(s, i)
      [] re.kind = "spaceRun" -> SpaceRunEnd(s, i)
      [] re.kind = "articleAnchor" -> ArticleAnchorEnd(s, i)

\* what replaces the match s[i..e-1] of re: a fixed string, or the value of
\* the callback
Replacement(re, s, i, e) ==
    IF re.kind = "numericRef" THEN NumericRefChar(s, i, e) ELSE re.by

\* the first of the positions starts that is >= i
FirstFrom(starts, i) ==
    CHOOSE m \in starts : m >= i /\ \A n \in starts : n >= i => m <= n

\* the end of the match at each position of s (0: no match there)
MatchEnds(s, re) == [j \in 1..Len(s) |-> MatchEnd(re, s, j)]

\* String.replace(/re/g, by) on a string s that is a value, given the end
\* of the match at each position: matches are taken leftmost first and do
\* not overlap
ReplaceWith(s, re, ends) ==
    LET R[i \in 1..(Len(s) + 1)] ==
            \* the replacement of s from position i on
            IF \A j \in i..Len(s) : ends[j] = 0 THEN SubSeq(s, i, Len(s))
            ELSE CHOOSE out \in
                     {SubSeq(s, i, j - 1) \o Replacement(re, s, j, ends[j])
                          \o R[ends[j]] :
                        j \in {FirstFrom({m \in i..Len(s) : ends[m] > 0}, i)}} :
                     TRUE
    IN  R[1]

ReplaceIn(s, re) ==
    CHOOSE out \in {ReplaceWith(s, re, ends) : ends \in {MatchEnds(s, re)}} : TRUE

\* String.replace(/re/g, by); the receiver is evaluated once
ReplaceAll(str, re) == CHOOSE out \in {ReplaceIn(s, re) : s \in {str}} : TRUE

\* the regular expression of a kind, with the string its matches become
Re(kind, by) == [kind |-> kind, by |-> by, lit |-> <<>>]

\* the entity table applied entry after entry, each to the output of the one
\* before
DecodeEntities(s) ==
    LET D[k \in 0..Len(Entities)] ==
            IF k = 0 THEN s
            ELSE ReplaceAll(D[k - 1],
                            [kind |-> "literal", by |-> <<Entities[k][2]>>,
                             lit |-> Entities[k][1]])
    IN  D[Len(Entities)]

\* text.split('\n').map(line => line.trim()).filter(Boolean).join('\n')
TrimLinesOf(lines) ==
    JoinLines(SelectSeq([k \in DOMAIN lines |-> Trim(lines[k])],
                        LAMBDA l : l # <<>>))

TrimLines(s) ==
    CHOOSE out \in {TrimLinesOf(lines) : lines \in {SplitLines(s)}} : TRUE

\* the expressions of cleanArticleHtml before and after the entity table, in
\* the order of the code
TagSteps ==
    << Re("anchorOpen", <<>>), Re("anchorClose", <<>>), Re("br", <<"\n">>),
       Re("headingTag", <<>>), Re("anyTag", <<>>) >>

SpaceSteps ==
    << Re("numericRef", <<>>), Re("blanks", <<" ">>),
       Re("blankLines", <<"\n">>) >>

\* text = text.replace(...) for each expression of steps in turn
ReplaceEach(s, steps) ==
    LET D[k \in 0..Len(steps)] ==
            IF k = 0 THEN s ELSE ReplaceAll(D[k - 1], steps[k])
    IN  D[Len(steps)]

cleanArticleHtml(html) ==
    TrimLines(ReplaceEach(DecodeEntities(ReplaceEach(html, TagSteps)), SpaceSteps))

----------------------------------------------------------------------------
(* parseArticles and parseArticlesFallback *)

\* an absent optional property (chapter?: string left undefined)
Undefined == <<"undefined">>

\* RegExp.exec with the g flag, until it returns null: the positions where
\* the matches start, given the end of the match at each position of s
MatchStartsWith(s, ends) ==
    LET M[i \in 1..(Len(s) + 1)] ==
            IF \A j \in i..Len(s) : ends[j] = 0 THEN <<>>
            ELSE CHOOSE out \in
                     {<<j>> \o M[ends[j]] :
                        j \in {FirstFrom({m \in i..Len(s) : ends[m] > 0}, i)}} :
                     TRUE
    IN  M[1]

MatchStartsIn(s, re) ==
    CHOOSE out \in {MatchStartsWith(s, ends) : ends \in {MatchEnds(s, re)}} : TRUE

\* [IVXLCDM\d] under the i flag
IsNumeral(c) == Lower(c) \in {"i", "v", "x", "l", "c", "d", "m"} \/ IsDigit(c)

\* the first position >= i of s whose character is no numeral
SkipNumerals(s, i) ==
    IF \E j \in i..Len(s) : ~IsNumeral(s[j])
    THEN CHOOSE j \in i..Len(s) :
             ~IsNumeral(s[j]) /\ \A k \in i..(j - 1) : IsNumeral(s[k])
    ELSE Len(s) + 1

\* the first position >= i of s holding "<" or a line feed
SkipTitle(s, i) ==
    IF \E j \in i..Len(s) : s[j] \in {"<", "\n"}
    THEN CHOOSE j \in i..Len(s) :
             s[j] \in {"<", "\n"} /\ \A k \in i..(j - 1) : s[k] \notin {"<", "\n"}
    ELSE Len(s) + 1

NoChapter == [found |-> FALSE, num |-> <<>>, title |-> <<>>]

\* the chapter expression, stage by stage from the left; a is where the
\* number starts, c where it ends, d where the dash is expected, e the end of
\* the white space after the dash and g where the title starts

\* ([^<\n]+) from g on
ChapterTitle(s, a, c, g) ==
    CHOOSE out \in
        {[found |-> TRUE, num |-> SubSeq(s, a, c - 1),
          title |-> SubSeq(s, t[1], t[2] - 1)] :
            t \in {<<x, SkipTitle(s, x)>> : x \in {g}}} :
        TRUE

\* \s*([^<\n]+): \s* is greedy and gives back until the title has a first
\* character
ChapterAfterDash(s, a, c, d, e) ==
    IF e <= Len(s) /\ s[e] # "<" THEN ChapterTitle(s, a, c, e)
    ELSE IF \E x \in (d + 1)..(e - 1) : s[x] # "\n"
         THEN ChapterTitle(s, a, c,
                  CHOOSE x \in (d + 1)..(e - 1) :
                      s[x] # "\n" /\ \A y \in (x + 1)..(e - 1) : s[y] = "\n")
         ELSE NoChapter

\* -
ChapterDash(s, a, c, d) ==
    IF d <= Len(s) /\ s[d] = "-"
    THEN CHOOSE out \in
             {ChapterAfterDash(s, a, c, d, e) : e \in {SkipSpace(s, d + 1)}} :
             TRUE
    ELSE NoChapter

\* \.\s*
ChapterPeriod(s, a, c) ==
    IF c <= Len(s) /\ s[c] = "."
    THEN CHOOSE out \in
             {ChapterDash(s, a, c, d) : d \in {SkipSpace(s, c + 1)}} : TRUE
    ELSE NoChapter

\* [IVXLCDM\d]+(?:er)? from a on, the numerals ending before b
ChapterNumber(s, a, b) ==
    IF b > a
    THEN CHOOSE out \in
             {ChapterPeriod(s, a, c) :
                c \in {IF LitAtCI(s, b, <<"e", "r">>) THEN b + 2 ELSE b}} : TRUE
    ELSE NoChapter

\* \s+ from p on, p the position after the keyword (0: no keyword)
ChapterAfterKeyword(s, p, a) ==
    IF p > 0 /\ a > p
    THEN CHOOSE out \in
             {ChapterNumber(s, a, b) : b \in {SkipNumerals(s, a)}} : TRUE
    ELSE NoChapter

\* (?:CHAPITRE|HOOFDSTUK) at position i of s: the position after it (0: none)
ChapterKeyword(s, i) ==
    IF LitAtCI(s, i, <<"c","h","a","p","i","t","r","e">>) THEN i + 8
    ELSE IF LitAtCI(s, i, <<"h","o","o","f","d","s","t","u","k">>) THEN i + 9
    ELSE 0

\* /(?:CHAPITRE|HOOFDSTUK)\s+([IVXLCDM\d]+(?:er)?)\.\s*-\s*([^<\n]+)/i tried
\* at position i of s: whether it matches there, and its two groups
ChapterAt(s, i) ==
    IF ChapterKeyword(s, i) > 0
    THEN CHOOSE out \in
             {ChapterAfterKeyword(s, p[1], p[2]) :
                p \in {<<k, SkipSpace(s, k)>> : k \in {ChapterKeyword(s, i)}}} :
             TRUE
    ELSE NoChapter

\* `${match[1]}. ${match[2].trim()}`
ChapterLabel(m) ==
    [found |-> TRUE, label |-> m.num \o <<".", " ">> \o Trim(m.title)]

\* String.match of the chapter expression on a string s that is a value: its
\* first match
ChapterIn(s) ==
    IF \E i \in 1..Len(s) : ChapterAt(s, i).found
    THEN ChapterLabel(ChapterAt(s, CHOOSE i \in 1..Len(s) :
                                      ChapterAt(s, i).found
                                      /\ \A j \in 1..(i - 1) : ~ChapterAt(s, j).found))
    ELSE [found |-> FALSE, label |-> <<>>]

ChapterMatch(str) == CHOOSE out \in {ChapterIn(s) : s \in {str}} : TRUE

\* String.replace(/\./g, '')
StripPeriods(s) == SelectSeq(s, LAMBDA c : c # ".")

\* String.replace(/er$/i, '')
StripEr(s) ==
    IF Len(s) >= 2 /\ LitAtCI(s, Len(s) - 1, <<"e", "r">>)
    THEN SubSeq(s, 1, Len(s) - 2)
    ELSE s

ArticleWord == <<"A","r","t","i","c","l","e"," ">>

\* artTitle of a display reference
ArtTitle(displayRef) ==
    IF displayRef = <<"1","e","r">> \/ displayRef = <<"1","E","R">>
    THEN ArticleWord \o <<"1","e","r">>
    ELSE ArticleWord \o displayRef

\* currentChapter after the two chapter checks of one iteration
NextChapter(currentChapter, chapterMatch, inlineChapterMatch) ==
    IF inlineChapterMatch.found THEN inlineChapterMatch.label
    ELSE IF chapterMatch.found THEN chapterMatch.label
    ELSE currentChapter

\* if (!text.trim()) continue; ... provisions.push({...})
PushArticle(st, currentChapter, content, displayRef) ==
    IF content = <<>>
    THEN [st EXCEPT !.currentChapter = currentChapter]
    ELSE [provisions |->
              Append(st.provisions,
                     [provision_ref |->
                          <<"a","r","t">> \o StripPeriods(LowerStr(displayRef)),
                      section |-> StripEr(displayRef),
                      title |-> ArtTitle(displayRef),
                      content |-> content,
                      chapter |-> currentChapter]),
          currentChapter |-> currentChapter]

\* one iteration of the loop of parseArticles over matches: st holds the
\* provisions pushed so far and currentChapter; the article runs from start
\* to nextStart - 1 and the previous anchor (or the text) starts at prevStart
ArticleStep(st, html, prevStart, start, nextStart) ==
    CHOOSE out \in
        {PushArticle(st, currentChapter, content, ArticleAnchorRef(html, start)) :
            currentChapter \in
                {NextChapter(st.currentChapter,
                             ChapterMatch(SubSeq(html, prevStart, start - 1)),
                             ChapterMatch(SubSeq(html, start, nextStart - 1)))},
            content \in
                {Trim(cleanArticleHtml(SubSeq(html, start, nextStart - 1)))}} :
        TRUE

\* \s+\d+ from p on, p the position after the word (0: no word)
BoundaryAfterWord(s, p, a) ==
    IF p > 0 /\ a > p /\ a <= Len(s) /\ IsDigit(s[a]) THEN a ELSE 0

\* (?:Article|Art\.) at position i of s: the position after it (0: none)
BoundaryWord(s, i) ==
    IF LitAtCI(s, i, <<"a","r","t","i","c","l","e">>) THEN i + 7
    ELSE IF LitAtCI(s, i, <<"a","r","t",".">>) THEN i + 4
    ELSE 0

\* (?:Article|Art\.)\s+\d+ under the i flag at position i of s: the position
\* of the first digit (0: no match at i)
BoundaryDigits(s, i) ==
    IF BoundaryWord(s, i) > 0
    THEN BoundaryAfterWord(s, BoundaryWord(s, i), SkipSpace(s, BoundaryWord(s, i)))
    ELSE 0

\* the k-th cut of a string of length n cut at the positions cuts: 1 before
\* the first part and n + 1 after the last
CutAt(cuts, k, n) ==
    IF k = 0 THEN 1
    ELSE IF k > Cardinality(cuts) THEN n + 1
    ELSE CHOOSE q \in cuts : Cardinality({r \in cuts : r < q}) = k - 1

\* the parts of s cut before each of the positions cuts
PartsAt(s, cuts) ==
    [k \in 1..(Cardinality(cuts) + 1) |->
        SubSeq(s, CutAt(cuts, k - 1, Len(s)), CutAt(cuts, k, Len(s)) - 1)]

\* String.split(/(?=(?:Article|Art\.)\s+\d+)/i) of a string s that is a value:
\* s is cut before every boundary except one at its very start
FallbackParts(s) ==
    CHOOSE out \in
        {PartsAt(s, cuts) :
            cuts \in {{q \in 2..Len(s) : BoundaryDigits(s, q) > 0}}} :
        TRUE

\* (\d+(?:er)?) from a on, the digits ending before b: artMatch[1]
FallbackNum(part, a, b) ==
    SubSeq(part, a, (IF LitAtCI(part, b, <<"e", "r">>) THEN b + 2 ELSE b) - 1)

\* provisions.push({...}) of parseArticlesFallback
FallbackRecord(part, num) ==
    [provision_ref |-> <<"a","r","t">> \o LowerStr(num),
     section |-> StripEr(num),
     title |-> ArticleWord \o num,
     content |-> Trim(part),
     chapter |-> Undefined]

\* the provision of one part of the fallback split that starts with a
\* boundary
FallbackProvision(part) ==
    CHOOSE out \in
        {FallbackRecord(part, num) :
            num \in {FallbackNum(part, a[1], a[2]) :
                       a \in {<<d, SkipDigits(part, d)>> :
                                d \in {BoundaryDigits(part, 1)}}}} :
        TRUE

\* part.match(/^(?:Article|Art\.)\s+(\d+(?:er)?)/i) is not null
StartsWithBoundary(part) == BoundaryDigits(part, 1) > 0

\* parseArticlesFallback on a cleaned text that is a value
FallbackOf(cleanText) ==
    CHOOSE out \in
        {[k \in 1..Len(kept) |-> FallbackProvision(kept[k])] :
            kept \in {SelectSeq(FallbackParts(cleanText), StartsWithBoundary)}} :
        TRUE

parseArticlesFallback(html) ==
    CHOOSE out \in {FallbackOf(t) : t \in {cleanArticleHtml(html)}} : TRUE

\* a parseArticles that always takes the plain-text strategy
ArticlesOfAlwaysFallback(html, matches) == parseArticlesFallback(html)

\* parseArticles on markup that is a value, with the starts of its anchors
ArticlesOf(html, matches) ==
    IF Len(matches) = 0 THEN parseArticlesFallback(html)
    ELSE LET P[i \in 0..Len(matches)] ==
                 \* the provisions and the chapter after the first i anchors
                 IF i = 0
                 THEN [provisions |-> <<>>, currentChapter |-> Undefined]
                 ELSE CHOOSE out \in
                          {ArticleStep(st, html,
                                       IF i > 1 THEN matches[i - 1] ELSE 1,
                                       matches[i],
                                       IF i + 1 <= Len(matches)
                                       THEN matches[i + 1] ELSE Len(html) + 1) :
                              st \in {P[i - 1]}} : TRUE
         IN  P[Len(matches)].provisions

parseArticles(html) ==
    CHOOSE out \in
        {ArticlesOf(h[1], h[2]) :
            h \in {<<t, MatchStartsIn(t, Re("articleAnchor", <<>>))>> : t \in {html}}} :
        TRUE

----------------------------------------------------------------------------
(* The fetcher: rateLimitedFetch, fetchYearIndex, fetchLawContent *)

BASE_URL == <<"h","t","t","p",":","/","/","w","w","w",".","e","j","u","s","t","i","c","e",".","j","u","s","t",".","f","g","o","v",".","b","e">>

RATE_LIMIT_MS == 500

maxRetries == 3

\* `${n}` for a natural number n
RECURSIVE NumStr(_)
NumStr(n) ==
    IF n < 10 THEN <<Digits[n + 1]>>
    ELSE NumStr(n \div 10) \o <<Digits[(n % 10) + 1]>>

\* const pathSegment = lang === 'fr' ? 'loi' : 'wet'
PathSegment(lang) == IF lang = "fr" THEN <<"l","o","i">> ELSE <<"w","e","t">>

\* the url of fetchYearIndex
YearIndexUrl(y, lang) ==
    BASE_URL \o <<"/","e","l","i","/">> \o PathSegment(lang) \o <<"/">> \o NumStr(y)

\* the url of fetchLawContent
LawContentUrl(y, month, day, numac, lang) ==
    BASE_URL \o <<"/","e","l","i","/">> \o PathSegment(lang) \o <<"/">> \o NumStr(y) \o <<"/">>
        \o month \o <<"/">> \o day \o <<"/">> \o numac \o <<"/","j","u","s","t","e","l">>

buildJustelUrl(y, month, day, numac, lang) ==
    BASE_URL \o <<"/","e","l","i","/">> \o PathSegment(lang) \o <<"/">> \o NumStr(y) \o <<"/">>
        \o month \o <<"/">> \o day \o <<"/">> \o numac \o <<"/","j","u","s","t","e","l">>

\* Date.now() differences are kept up to RATE_LIMIT_MS, which is all the
\* code compares them with: an age of RATE_LIMIT_MS stands for "at least
\* RATE_LIMIT_MS ago"; this is the age after ms more milliseconds
Later(age, ms) ==
    IF age + ms >= RATE_LIMIT_MS THEN RATE_LIMIT_MS ELSE age + ms

\* the statuses of the outcomes of one attempt: 200 for response.ok, an
\* HTTP status that is not ok, or NetworkError when fetch (or reading the
\* body) rejects
NetworkError == 0

OkStatus == 200

FailStatuses == {404, 500, NetworkError}

\* the error the catch clause of rateLimitedFetch receives
\* throw new Error(`HTTP ${response.status} for ${url}`)
AttemptError(status, u) ==
    IF status = NetworkError
    THEN [name |-> <<"T","y","p","e","E","r","r","o","r">>, message |-> <<"f","e","t","c","h"," ","f","a","i","l","e","d">>]
    ELSE [name |-> <<"E","r","r","o","r">>,
          message |-> <<"H","T","T","P"," ">> \o NumStr(status) \o <<" ","f","o","r"," ">> \o u]

\* String(error)
ErrorString(error) == error.name \o <<":"," ">> \o error.message

\* a backoff that does not grow with the attempt
BackoffFlat(n) == 1000

\* const backoff = attempt * 1000
Backoff(n) == n * 1000

\* a loop that gives up one attempt late
LastAttemptOffByOne(n) == n > maxRetries

\* if (attempt === maxRetries) throw error
LastAttempt(n) == n = maxRetries

NoResult == [kind |-> "none"]

\* the caller has the value or the error of the call: no call is under way
CallOver ==
    /\ fpc' = "idle"
    /\ url' = <<>>
    /\ attempt' = 0
    /\ outcomes' = <<>>
    /\ waits' = <<>>
    /\ result' = NoResult

\* rateLimitedFetch(u) up to its first await: the wait of the limiter, or
\* the first request
\* the page a url of the site stands for: a law page of one language
\* (BASE_URL/eli/loi/.../justel, BASE_URL/eli/wet/.../justel) or a year index
UrlKind(u) ==
    LET tail == <<"/","j","u","s","t","e","l">>
        loi == BASE_URL \o <<"/","e","l","i","/","l","o","i","/">>
    IN  IF Len(u) >= Len(tail) /\ SubSeq(u, Len(u) - Len(tail) + 1, Len(u)) = tail
        THEN IF Len(u) >= Len(loi) /\ SubSeq(u, 1, Len(loi)) = loi THEN "fr" ELSE "nl"
        ELSE "index"

rateLimitedFetch(u) ==
    /\ url' = u
    /\ fetchLog' = Append(fetchLog, UrlKind(u))
    /\ outcomes' = <<>>
    /\ waits' = <<>>
    /\ result' = NoResult
    /\ IF elapsed < RATE_LIMIT_MS
       THEN /\ fpc' = "ratewait"
            /\ attempt' = 0
            /\ UNCHANGED <<elapsed, sinceRequest, gap>>
       ELSE /\ fpc' = "inflight"
            /\ attempt' = 1
            /\ elapsed' = 0
            /\ gap' = sinceRequest
            /\ sinceRequest' = 0

\* the timer of the limiter fires: lastRequestTime = Date.now(), and the
\* first request
RateLimitWaitDone ==
    /\ fpc = "ratewait"
    /\ fpc' = "inflight"
    /\ attempt' = 1
    /\ elapsed' = 0
    /\ gap' = Later(sinceRequest, RATE_LIMIT_MS - elapsed)
    /\ sinceRequest' = 0
    /\ UNCHANGED <<url, outcomes, waits, result, mainVars, ghostVars, unitVars>>

\* the request of this attempt is answered after ms milliseconds with a
\* response that is ok and whose body decodes to body
RequestSucceeds(ms, body) ==
    /\ fpc = "inflight"
    /\ fpc' = "returned"
    /\ elapsed' = Later(elapsed, ms)
    /\ sinceRequest' = Later(sinceRequest, ms)
    /\ outcomes' = Append(outcomes, OkStatus)
    /\ result' = [kind |-> "value", body |-> body]
    /\ UNCHANGED <<url, attempt, gap, waits, mainVars, ghostVars, unitVars>>

\* the request of this attempt fails after ms milliseconds: the catch clause
RequestFails(ms, status) ==
    /\ fpc = "inflight"
    /\ elapsed' = Later(elapsed, ms)
    /\ sinceRequest' = Later(sinceRequest, ms)
    /\ outcomes' = Append(outcomes, status)
    /\ IF LastAttempt(attempt)
       THEN /\ fpc' = "thrown"
            /\ result' = [kind |-> "error", error |-> AttemptError(status, url)]
            /\ UNCHANGED waits
       ELSE /\ fpc' = "backoff"
            /\ waits' = Append(waits, Backoff(attempt))
            /\ UNCHANGED result
    /\ UNCHANGED <<url, attempt, gap, mainVars, ghostVars, unitVars>>

\* the timer of the backoff fires: the next attempt
BackoffDone ==
    /\ fpc = "backoff"
    /\ fpc' = "inflight"
    /\ attempt' = attempt + 1
    /\ elapsed' = Later(elapsed, Backoff(attempt))
    /\ gap' = Later(sinceRequest, Backoff(attempt))
    /\ sinceRequest' = 0
    /\ UNCHANGED <<url, outcomes, waits, result, mainVars, ghostVars, unitVars>>

----------------------------------------------------------------------------
(* The year index parser: parseYearIndex.  A year index page is the
   document the DOM library builds from it: its a[href] elements in
   document order, each with its href attribute, whether it stands in a
   table row and the textContent of the td cells of that row.  A page the
   DOM library cannot build a document from is Garbage: new JSDOM throws. *)

Garbage == [kind |-> "garbage"]

\* String.includes
Includes(s, lit) == \E i \in 1..Len(s) : LitAt(s, i, lit)

\* String.indexOf: 0-based, -1 when lit does not occur
IndexOf(s, lit) ==
    IF Includes(s, lit)
    THEN (CHOOSE i \in 1..Len(s) :
              LitAt(s, i, lit) /\ \A j \in 1..(i - 1) : ~LitAt(s, j, lit)) - 1
    ELSE -1

\* href.includes('/justel') && (href.includes('/eli/loi/') ||
\* href.includes('/eli/wet/'))
IsJustelLink(link) ==
    /\ Includes(link.href, <<"/","j","u","s","t","e","l">>)
    /\ Includes(link.href, <<"/","e","l","i","/","l","o","i","/">>) \/ Includes(link.href, <<"/","e","l","i","/","w","e","t","/">>)

\* \d{n} at position i of s
DigitsAt(s, i, n) ==
    i + n - 1 <= Len(s) /\ \A k \in i..(i + n - 1) : IsDigit(s[k])

\* (\d{4})\/(\d{2})\/(\d{2})\/(\d+)\/justel at position p of s; e is the
\* position after the digits of the last group
UrlTail(s, p, e) ==
    /\ DigitsAt(s, p, 4)
    /\ LitAt(s, p + 4, <<"/">>)
    /\ DigitsAt(s, p + 5, 2)
    /\ LitAt(s, p + 7, <<"/">>)
    /\ DigitsAt(s, p + 8, 2)
    /\ LitAt(s, p + 10, <<"/">>)
    /\ e > p + 11
    /\ LitAt(s, e, <<"/","j","u","s","t","e","l">>)

\* /\/eli\/(?:loi|wet)\/(\d{4})\/(\d{2})\/(\d{2})\/(\d+)\/justel/ at
\* position i of s
UrlMatchAt(s, i) ==
    /\ LitAt(s, i, <<"/","e","l","i","/","l","o","i","/">>) \/ LitAt(s, i, <<"/","e","l","i","/","w","e","t","/">>)
    /\ UrlTail(s, i + 9, SkipDigits(s, i + 20))

\* the groups of the match at position i: [, yearStr, month, day, numac]
UrlGroups(s, i) ==
    [yearStr |-> SubSeq(s, i + 9, i + 12),
     month |-> SubSeq(s, i + 14, i + 15),
     day |-> SubSeq(s, i + 17, i + 18),
     numac |-> SubSeq(s, i + 20, SkipDigits(s, i + 20) - 1)]

\* href.match(...): the groups of the first match
UrlMatch(href) ==
    IF \E i \in 1..Len(href) : UrlMatchAt(href, i)
    THEN [found |-> TRUE,
          groups |-> UrlGroups(href,
                         CHOOSE i \in 1..Len(href) :
                             UrlMatchAt(href, i)
                             /\ \A j \in 1..(i - 1) : ~UrlMatchAt(href, j))]
    ELSE [found |-> FALSE]

\* const pubMarker = lang === 'fr' ? 'Publié le' : 'Gepubliceerd op'
PubMarker(lang) ==
    IF lang = "fr" THEN <<"P","u","b","l","i","U233"," ","l","e">> ELSE <<"G","e","p","u","b","l","i","c","e","e","r","d"," ","o","p">>

\* const sourceMarker = lang === 'fr' ? 'Source :' : 'Bron :'
SourceMarker(lang) == IF lang = "fr" THEN <<"S","o","u","r","c","e"," ",":">> ELSE <<"B","r","o","n"," ",":">>

\* the title before it is cleaned: pubIndex is fullText.indexOf(pubMarker)
RawTitle(fullText, pubIndex) ==
    IF pubIndex > 0 THEN Trim(SubSeq(fullText, 1, pubIndex)) ELSE Trim(fullText)

\* /\(\d+\)\s*$/ at position i of s; e is the position after the digits
NoteAt(s, i, e) ==
    /\ s[i] = "("
    /\ e > i + 1
    /\ e <= Len(s)
    /\ s[e] = ")"
    /\ SkipSpace(s, e + 1) = Len(s) + 1

\* .replace(/\(\d+\)\s*$/, '') on a string s that is a value
StripNoteOf(s) ==
    IF \E i \in 1..Len(s) : NoteAt(s, i, SkipDigits(s, i + 1))
    THEN SubSeq(s, 1, (CHOOSE i \in 1..Len(s) :
                           /\ NoteAt(s, i, SkipDigits(s, i + 1))
                           /\ \A j \in 1..(i - 1) :
                                  ~NoteAt(s, j, SkipDigits(s, j + 1))) - 1)
    ELSE s

StripNote(str) == CHOOSE out \in {StripNoteOf(s) : s \in {str}} : TRUE

\* title.replace(/\s+/g, ' ').replace(/\(\d+\)\s*$/, '').trim()
CleanTitle(title) ==
    Trim(StripNote(ReplaceAll(title, Re("spaceRun", <<" ">>))))

\* (lineEnd > 0 ? afterSource.substring(0, lineEnd) : afterSource).trim()
SourceLine(afterSource, lineEnd) ==
    IF lineEnd > 0 THEN Trim(SubSeq(afterSource, 1, lineEnd))
    ELSE Trim(afterSource)

\* the source of an entry: sourceIdx is fullText.indexOf(sourceMarker)
SourceOf(fullText, marker, sourceIdx) ==
    IF sourceIdx >= 0
    THEN CHOOSE out \in
             {SourceLine(afterSource, IndexOf(afterSource, <<"\n">>)) :
                afterSource \in
                    {Trim(From(fullText, sourceIdx + Len(marker) + 1))}} :
             TRUE
    ELSE <<>>

\* /(\d{2}-\d{2}-\d{4})/ at position i of s
PubDateAt(s, i) ==
    /\ DigitsAt(s, i, 2)
    /\ LitAt(s, i + 2, <<"-">>)
    /\ DigitsAt(s, i + 3, 2)
    /\ LitAt(s, i + 5, <<"-">>)
    /\ DigitsAt(s, i + 6, 4)

\* the publication date of an entry: the first match, '' without one
PublicationDate(fullText) ==
    IF \E i \in 1..Len(fullText) : PubDateAt(fullText, i)
    THEN SubSeq(fullText,
                CHOOSE i \in 1..Len(fullText) :
                    PubDateAt(fullText, i)
                    /\ \A j \in 1..(i - 1) : ~PubDateAt(fullText, j),
                (CHOOSE i \in 1..Len(fullText) :
                    PubDateAt(fullText, i)
                    /\ \A j \in 1..(i - 1) : ~PubDateAt(fullText, j)) + 9)
    ELSE <<>>

\* title, source and publicationDate from the text of the second cell
CellInfo(fullText, lang) ==
    [title |-> CleanTitle(RawTitle(fullText, IndexOf(fullText, PubMarker(lang)))),
     source |-> SourceOf(fullText, SourceMarker(lang),
                         IndexOf(fullText, SourceMarker(lang))),
     publicationDate |-> PublicationDate(fullText)]

\* what the row of a link gives: nothing when it has fewer than two cells
RowInfo(cells, lang) ==
    IF Len(cells) >= 2 THEN CellInfo(cells[2], lang)
    ELSE [title |-> <<>>, source |-> <<>>, publicationDate |-> <<>>]

\* href.startsWith('http') ? href.trim() : `http://www.ejustice.just.fgov.be${href}`.trim()
FullUrl(href) ==
    IF LitAt(href, 1, <<"h","t","t","p">>) THEN Trim(href) ELSE Trim(BASE_URL \o href)

\* title.includes('Traduction allemande') || title.includes('Duitse vertaling')
IsGermanTranslation(title) ==
    Includes(title, <<"T","r","a","d","u","c","t","i","o","n"," ","a","l","l","e","m","a","n","d","e">>) \/ Includes(title, <<"D","u","i","t","s","e"," ","v","e","r","t","a","l","i","n","g">>)

\* PushEntry numbering the entries from 0
PushEntryZeroBased(list, href, g, info) ==
    IF IsGermanTranslation(info.title) THEN list
    ELSE Append(list,
             [index |-> Len(list),
              title |-> info.title,
              date |-> NumStr(ParseInt(g.yearStr)) \o <<"-">> \o g.month
                           \o <<"-">> \o g.day,
              year |-> ParseInt(g.yearStr),
              month |-> g.month,
              day |-> g.day,
              numac |-> g.numac,
              justelUrl |-> FullUrl(href),
              source |-> info.source,
              publicationDate |-> info.publicationDate])

\* entries.push({...}) onto the entries so far, unless the title is that of a German translation
PushEntry(list, href, g, info) ==
    IF IsGermanTranslation(info.title) THEN list
    ELSE Append(list,
             [index |-> Len(list) + 1,
              title |-> info.title,
              date |-> NumStr(ParseInt(g.yearStr)) \o <<"-">> \o g.month
                           \o <<"-">> \o g.day,
              year |-> ParseInt(g.yearStr),
              month |-> g.month,
              day |-> g.day,
              numac |-> g.numac,
              justelUrl |-> FullUrl(href),
              source |-> info.source,
              publicationDate |-> info.publicationDate])

\* one iteration of the loop over justelLinks, given the urlMatch of the link
LinkEntry(list, link, urlMatch, lang) ==
    IF ~urlMatch.found THEN list
    ELSE IF ~link.inRow THEN list
    ELSE CHOOSE out \in
             {PushEntry(list, link.href, urlMatch.groups, info) :
                info \in {RowInfo(link.cells, lang)}} :
             TRUE

\* the loop over justelLinks
EntriesOf(justelLinks, lang) ==
    LET E[k \in 0..Len(justelLinks)] ==
            IF k = 0 THEN <<>>
            ELSE CHOOSE out \in
                     {LinkEntry(list, justelLinks[k], urlMatch, lang) :
                        list \in {E[k - 1]},
                        urlMatch \in {UrlMatch(justelLinks[k].href)}} :
                     TRUE
    IN  E[Len(justelLinks)]

parseYearIndex(page, lang) ==
    CHOOSE out \in
        {EntriesOf(justelLinks, lang) :
            justelLinks \in {SelectSeq(page.links, IsJustelLink)}} :
        TRUE

----------------------------------------------------------------------------
(* The law page parser: parseLawContent.  A law page is the document the
   DOM library builds from it: the textContent of its .list-item--title
   element and the innerHTML of its #list-title-3 element, each present or
   not.  entryIntoForce and source of the result are read by no caller and
   are left out. *)

\* (titleEl.textContent || '').replace(/\s+/g, ' ').trim(), '' without titleEl
LawTitle(titleEl) ==
    IF titleEl.found
    THEN Trim(ReplaceAll(titleEl.textContent, Re("spaceRun", <<" ">>)))
    ELSE <<>>

parseLawContent(page, numac) ==
    [title |-> LawTitle(page.titleEl),
     numac |-> numac,
     provisions |->
         IF ~page.textSection.found THEN <<>>
         ELSE parseArticles(page.textSection.innerHTML)]

----------------------------------------------------------------------------
(* The ingestion orchestrator: main, runDiscovery, runFrenchContent,
   runDutchContent.  Each action is the code from one await to the next. *)

\* yearStart: 1994, the default of parseArgs
FirstYear == 1994

\* a cap that is never applied
LimitedNever(list, limit) == list

\* options.limit > 0 ? list.slice(0, options.limit) : list
Limited(list, limit) ==
    IF limit > 0
    THEN SubSeq(list, 1, IF limit < Len(list) THEN limit ELSE Len(list))
    ELSE list

\* a main that runs the content stages whatever the phase
StageAfterIndexIgnoresPhase ==
    IF options.lang \in {"fr", "both"} THEN "french" ELSE "dutch"

\* where main goes once it holds the entries
StageAfterIndex ==
    IF options.phase \in {"all", "content"}
    THEN IF options.lang \in {"fr", "both"} THEN "french"
         ELSE IF options.lang \in {"nl", "both"} THEN "dutch"
         ELSE "done"
    ELSE "done"

\* where main goes after runFrenchContent
StageAfterFrench ==
    IF options.lang \in {"nl", "both"} THEN "dutch" ELSE "done"

NoFile == [exists |-> FALSE, entries |-> <<>>]

\* ...(p.chapter ? { chapter: p.chapter } : {})
SeedProvision(p) ==
    [provision_ref |-> p.provision_ref,
     section |-> p.section,
     title |-> p.title,
     content |-> p.content,
     chapter |-> IF p.chapter = <<>> THEN Undefined ELSE p.chapter]

\* const seedId = `loi-${entry.date}-${entry.numac}-fr` (wet ... -nl)
SeedId(entry, lang) ==
    (IF lang = "fr" THEN <<"l","o","i","-">> ELSE <<"w","e","t","-">>) \o entry.date \o <<"-">>
        \o entry.numac \o (IF lang = "fr" THEN <<"-","f","r">> ELSE <<"-","n","l">>)

\* const seed: SeedDocument = {...}
SeedDocument(entry, law, lang) ==
    [id |-> SeedId(entry, lang),
     type |-> "statute",
     title |-> IF law.title # <<>> THEN law.title ELSE entry.title,
     status |-> "in_force",
     issued_date |-> entry.date,
     url |-> buildJustelUrl(entry.year, entry.month, entry.day, entry.numac, lang),
     language |-> lang,
     numac |-> entry.numac,
     provisions |-> [k \in 1..Len(law.provisions) |-> SeedProvision(law.provisions[k])]]

\* fs.writeFileSync(path.join(SEED_DIR, `${seedId}.json`), ...): the seed
\* directory afterwards, one document per file name
WriteSeed(files, seed) ==
    CHOOSE out \in {{f \in files : f.id # s.id} \cup {s} : s \in {seed}} : TRUE

\* String(error).includes('404')
Includes404(error) == Includes(ErrorString(error), <<"4","0","4">>)

\* a content loop that lets every parsed law through
NoArticlesNever(law) == FALSE

\* if (parsed.provisions.length === 0)
NoArticles(law) == Len(law.provisions) = 0

\* the counters and the seed directory as an iteration of a content loop
\* finds them
Snapshot(counters) == [counters |-> counters, files |-> seedFiles]

Main ==
    /\ pc = "main"
    /\ IF options.phase \in {"all", "discovery"}
       THEN /\ pc' = "discovery"
            /\ year' = options.yearStart
            /\ allEntries' = <<>>
            /\ UNCHANGED <<entries, idx>>
       ELSE IF ~indexFile.exists
       THEN /\ pc' = "exit"
            /\ UNCHANGED <<year, allEntries, entries, idx>>
       ELSE /\ entries' = Limited(indexFile.entries, options.limit)
            /\ pc' = StageAfterIndex
            /\ idx' = 1
            /\ UNCHANGED <<year, allEntries>>
    /\ UNCHANGED <<options, indexFile, seedFiles, french, dutch,
                   fetchVars, ghostVars, unitVars>>

\* a runDiscovery that calls fetchYearIndex without awaiting the call before
DiscoveryFetchNoAwait ==
    /\ pc = "discovery"
    /\ year <= options.yearEnd
    /\ Len(attemptedYears) <= MaxYears
    /\ rateLimitedFetch(YearIndexUrl(year, "fr"))
    /\ attemptedYears' = Append(attemptedYears, year)
    /\ UNCHANGED <<mainVars, yearEntries, before, handled, unitVars>>

\* const html = await fetchYearIndex(year, 'fr')
DiscoveryFetch ==
    /\ pc = "discovery"
    /\ fpc = "idle"
    /\ year <= options.yearEnd
    /\ rateLimitedFetch(YearIndexUrl(year, "fr"))
    /\ attemptedYears' = Append(attemptedYears, year)
    /\ UNCHANGED <<mainVars, yearEntries, before, handled, unitVars>>

\* fetchYearIndex returned: parseYearIndex and allEntries.push, or the catch
\* clause when the parser throws
DiscoveryParsed ==
    /\ pc = "discovery"
    /\ fpc = "returned"
    /\ \E found \in {IF result.body.kind = "garbage" THEN <<>>
                     ELSE parseYearIndex(result.body, "fr")} :
           /\ allEntries' = allEntries \o found
           /\ yearEntries' = Append(yearEntries, found)
    /\ handled' = IF result.body.kind = "garbage" THEN "caught" ELSE "listed"
    /\ year' = year + 1
    /\ CallOver
    /\ UNCHANGED <<options, indexFile, seedFiles, pc, entries, idx, french, dutch,
                   elapsed, sinceRequest, gap,
                   attemptedYears, fetchLog, before, unitVars>>

\* a runDiscovery without the catch clause: the error reaches main().catch
DiscoveryFailedFatal ==
    /\ pc = "discovery"
    /\ fpc = "thrown"
    /\ pc' = "exit"
    /\ CallOver
    /\ UNCHANGED <<options, indexFile, seedFiles, year, allEntries, entries, idx,
                   french, dutch, elapsed, sinceRequest, gap, ghostVars, unitVars>>

\* a runDiscovery whose catch clause leaves the loop
DiscoveryFailedBreaks ==
    /\ pc = "discovery"
    /\ fpc = "thrown"
    /\ yearEntries' = Append(yearEntries, <<>>)
    /\ year' = options.yearEnd + 1
    /\ handled' = "caught"
    /\ CallOver
    /\ UNCHANGED <<options, indexFile, seedFiles, pc, allEntries, entries, idx,
                   french, dutch, elapsed, sinceRequest, gap,
                   attemptedYears, fetchLog, before, unitVars>>

\* fetchYearIndex threw: the catch clause
DiscoveryFailed ==
    /\ pc = "discovery"
    /\ fpc = "thrown"
    /\ yearEntries' = Append(yearEntries, <<>>)
    /\ year' = year + 1
    /\ handled' = "caught"
    /\ CallOver
    /\ UNCHANGED <<options, indexFile, seedFiles, pc, allEntries, entries, idx,
                   french, dutch,
                   elapsed, sinceRequest, gap,
                   attemptedYears, fetchLog, before, unitVars>>

\* after the loop: the limit, the index file, and back in main
DiscoverySaved ==
    /\ pc = "discovery"
    /\ fpc = "idle"
    /\ year > options.yearEnd
    /\ indexFile' = [exists |-> TRUE, entries |-> Limited(allEntries, options.limit)]
    /\ entries' = Limited(allEntries, options.limit)
    /\ pc' = StageAfterIndex
    /\ idx' = 1
    /\ UNCHANGED <<options, seedFiles, year, allEntries, french, dutch,
                   fetchVars, ghostVars, unitVars>>

\* const html = await fetchLawContent(..., 'fr')
FrenchFetch ==
    /\ pc = "french"
    /\ fpc = "idle"
    /\ idx <= Len(entries)
    /\ rateLimitedFetch(LawContentUrl(entries[idx].year, entries[idx].month,
                                      entries[idx].day, entries[idx].numac, "fr"))
    /\ before' = Snapshot(french)
    /\ handled' = "pending"
    /\ UNCHANGED <<mainVars, attemptedYears, yearEntries, unitVars>>

\* fetchLawContent returned: parseLawContent, then skip or write; the catch
\* clause when the parser throws
FrenchParsed ==
    /\ pc = "french"
    /\ fpc = "returned"
    /\ IF result.body.kind = "garbage"
       THEN /\ french' = [french EXCEPT !.failed = @ + 1]
            /\ handled' = "caught"
            /\ UNCHANGED seedFiles
       ELSE \E law \in {parseLawContent(result.body, entries[idx].numac)} :
                IF NoArticles(law)
                THEN /\ handled' = "empty"
                     /\ UNCHANGED <<french, seedFiles>>
                ELSE /\ seedFiles' = WriteSeed(seedFiles,
                                         SeedDocument(entries[idx], law, "fr"))
                     /\ french' = [french EXCEPT !.processed = @ + 1]
                     /\ handled' = "written"
    /\ idx' = idx + 1
    /\ CallOver
    /\ UNCHANGED <<options, indexFile, pc, year, allEntries, entries, dutch,
                   elapsed, sinceRequest, gap,
                   attemptedYears, fetchLog, yearEntries, before, unitVars>>

\* fetchLawContent threw: the catch clause
FrenchFailed ==
    /\ pc = "french"
    /\ fpc = "thrown"
    /\ french' = [french EXCEPT !.failed = @ + 1]
    /\ handled' = "caught"
    /\ idx' = idx + 1
    /\ CallOver
    /\ UNCHANGED <<options, indexFile, seedFiles, pc, year, allEntries, entries,
                   dutch,
                   elapsed, sinceRequest, gap,
                   attemptedYears, fetchLog, yearEntries, before, unitVars>>

\* after the loop: back in main
FrenchDone ==
    /\ pc = "french"
    /\ fpc = "idle"
    /\ idx > Len(entries)
    /\ pc' = StageAfterFrench
    /\ idx' = 1
    /\ handled' = "none"
    /\ UNCHANGED <<options, indexFile, seedFiles, year, allEntries, entries,
                   french, dutch, fetchVars, attemptedYears, fetchLog, yearEntries, before,
                   unitVars>>

\* const html = await fetchLawContent(..., 'nl')
DutchFetch ==
    /\ pc = "dutch"
    /\ fpc = "idle"
    /\ idx <= Len(entries)
    /\ rateLimitedFetch(LawContentUrl(entries[idx].year, entries[idx].month,
                                      entries[idx].day, entries[idx].numac, "nl"))
    /\ before' = Snapshot(dutch)
    /\ handled' = "pending"
    /\ UNCHANGED <<mainVars, attemptedYears, yearEntries, unitVars>>

\* fetchLawContent returned: parseLawContent, then skip or write; the catch
\* clause when the parser throws
DutchParsed ==
    /\ pc = "dutch"
    /\ fpc = "returned"
    /\ IF result.body.kind = "garbage"
       THEN /\ dutch' = [dutch EXCEPT !.failed = @ + 1]
            /\ handled' = "caught"
            /\ UNCHANGED seedFiles
       ELSE \E law \in {parseLawContent(result.body, entries[idx].numac)} :
                IF NoArticles(law)
                THEN /\ dutch' = [dutch EXCEPT !.skipped = @ + 1]
                     /\ handled' = "empty"
                     /\ UNCHANGED seedFiles
                ELSE /\ seedFiles' = WriteSeed(seedFiles,
                                         SeedDocument(entries[idx], law, "nl"))
                     /\ dutch' = [dutch EXCEPT !.processed = @ + 1]
                     /\ handled' = "written"
    /\ idx' = idx + 1
    /\ CallOver
    /\ UNCHANGED <<options, indexFile, pc, year, allEntries, entries, french,
                   elapsed, sinceRequest, gap,
                   attemptedYears, fetchLog, yearEntries, before, unitVars>>

\* the catch clause of runDutchContent, for the error it caught
DutchCatch(counters, error) ==
    IF Includes404(error)
    THEN [counters EXCEPT !.failed = @ + 1, !.skipped = @ + 1]
    ELSE [counters EXCEPT !.failed = @ + 1]

\* fetchLawContent threw: the catch clause
DutchFailed ==
    /\ pc = "dutch"
    /\ fpc = "thrown"
    /\ dutch' = DutchCatch(dutch, result.error)
    /\ handled' = IF \A k \in 1..Len(outcomes) : outcomes[k] = 404
                  THEN "notfound"
                  ELSE IF outcomes[Len(outcomes)] = 404
                       THEN "caught" ELSE "othererror"
    /\ idx' = idx + 1
    /\ CallOver
    /\ UNCHANGED <<options, indexFile, seedFiles, pc, year, allEntries, entries,
                   french,
                   elapsed, sinceRequest, gap,
                   attemptedYears, fetchLog, yearEntries, before, unitVars>>

\* after the loop: back in main, which logs 'Done.'
DutchDone ==
    /\ pc = "dutch"
    /\ fpc = "idle"
    /\ idx > Len(entries)
    /\ pc' = "done"
    /\ handled' = "none"
    /\ UNCHANGED <<options, indexFile, seedFiles, year, allEntries, entries, idx,
                   french, dutch, fetchVars, attemptedYears, fetchLog, yearEntries, before,
                   unitVars>>

----------------------------------------------------------------------------
(* The full-text query builder: sanitizeFtsInput, buildFtsQueryVariants *)

Quote == "\""

\* String.replace(/[...]/g, '') for a character class given as a set
StripChars(s, class) == SelectSeq(s, LAMBDA c : c \notin class)

\* the three replacements of sanitizeFtsInput, then trim
sanitizeFtsInput(input) ==
    Trim(StripChars(StripChars(StripChars(input,
             {Quote, "U8220", "U8221"}),
             {"'", "U8216", "U8217"}),
             {"{", "}", "[", "]", "(", ")", "^", "~", ":", ";"}))

\* \w of a regular expression without the u flag: [A-Za-z0-9_]
IsWordChar(c) ==
    \/ \E k \in 1..26 : UpperLetters[k] = c \/ LowerLetters[k] = c
    \/ IsDigit(c)
    \/ c = "_"

\* \b before position i of s
WordBoundary(s, i) ==
    (i > 1 /\ IsWordChar(s[i - 1])) # (i <= Len(s) /\ IsWordChar(s[i]))

\* \bword\b at position i of s
KeywordAt(s, i, word) ==
    LitAt(s, i, word) /\ WordBoundary(s, i) /\ WordBoundary(s, i + Len(word))

\* EXPLICIT_FTS_SYNTAX.test(s): /["""]|(\bAND\b)|(\bOR\b)|(\bNOT\b)|\*$/
EXPLICIT_FTS_SYNTAX(s) ==
    \/ \E i \in 1..Len(s) :
           \/ s[i] = Quote
           \/ KeywordAt(s, i, <<"A","N","D">>)
           \/ KeywordAt(s, i, <<"O","R">>)
           \/ KeywordAt(s, i, <<"N","O","T">>)
    \/ Len(s) > 0 /\ s[Len(s)] = "*"

\* the finished words and the word in hand, one character further
WordStep(st, c) ==
    IF IsSpace(c)
    THEN [words |-> IF st.word = <<>> THEN st.words ELSE Append(st.words, st.word),
          word |-> <<>>]
    ELSE [words |-> st.words, word |-> Append(st.word, c)]

\* s.split(/\s+/).filter(t => t.length > 0)
SplitWords(s) ==
    LET W[k \in 0..Len(s)] ==
            IF k = 0 THEN [words |-> <<>>, word |-> <<>>]
            ELSE CHOOSE out \in {WordStep(st, s[k]) : st \in {W[k - 1]}} : TRUE
    IN  WordStep(W[Len(s)], " ").words

\* t.replace(/[^\w\s-]/g, '')
TokenClean(t) ==
    SelectSeq(t, LAMBDA c : IsWordChar(c) \/ IsSpace(c) \/ c = "-")

\* Array.join
Join(parts, sep) ==
    LET J[k \in 0..Len(parts)] ==
            IF k = 0 THEN <<>>
            ELSE IF k = 1 THEN parts[1]
            ELSE J[k - 1] \o sep \o parts[k]
    IN  J[Len(parts)]

\* the variants for the tokens: "t"* joined by ' ', t* joined by ' OR '
VariantsOf(trimmed, tokens) ==
    IF Len(tokens) = 0 THEN [primary |-> trimmed, fallback |-> Undefined]
    ELSE [primary |->
              Join([k \in 1..Len(tokens) |->
                        <<Quote>> \o tokens[k] \o <<Quote, "*">>], <<" ">>),
          fallback |->
              Join([k \in 1..Len(tokens) |-> tokens[k] \o <<"*">>],
                   <<" ", "O", "R", " ">>)]

buildFtsQueryVariants(query) ==
    LET trimmed == Trim(query)
        words == SplitWords(trimmed)
    IN  IF EXPLICIT_FTS_SYNTAX(trimmed)
        THEN [primary |-> trimmed, fallback |-> Undefined]
        ELSE VariantsOf(trimmed, [k \in 1..Len(words) |-> TokenClean(words[k])])

----------------------------------------------------------------------------
(* The search tools: searchLegislation, buildLegalStance, searchCaseLaw,
   getDefinitions.  A tool returns its results and the SQL statements it
   ran, or throws.  The full-text index is the database's: db.fts says which
   MATCH arguments it finds rows for ("all", "none", or "unquoted": only the
   arguments without a quoted term), and a statement on a database whose
   db.broken is set raises. *)

\* an optional number or date that is given, and one that is not
\* (undefined in an input, NULL in a row)
Given(v) == [given |-> TRUE, value |-> v]

NotGiven == [given |-> FALSE, value |-> 0]

Null == NotGiven

\* the arguments of a request without arguments
NoArguments ==
    [given |-> FALSE, text |-> Undefined, limit |-> NotGiven, asOfDate |-> NotGiven]

\* DEFAULT_LIMIT and MAX_LIMIT of search-legislation, search-case-law and
\* get-definitions
DEFAULT_LIMIT == 10

MAX_LIMIT == 50

\* DEFAULT_LIMIT and MAX_LIMIT of build-legal-stance
STANCE_DEFAULT_LIMIT == 5

STANCE_MAX_LIMIT == 20

\* a limit that is not clamped from above
LimitOfNoMax(limit, default, max) ==
    IF (IF limit.given THEN limit.value ELSE default) > 1
    THEN (IF limit.given THEN limit.value ELSE default)
    ELSE 1

\* Math.min(Math.max(input.limit ?? DEFAULT_LIMIT, 1), MAX_LIMIT)
LimitOf(limit, default, max) ==
    LET asked == IF limit.given THEN limit.value ELSE default
        atLeastOne == IF asked > 1 THEN asked ELSE 1
    IN  IF atLeastOne < max THEN atLeastOne ELSE max

\* whether the full-text index finds rows for a MATCH argument
Finds(match) ==
    \/ db.fts = "all"
    \/ db.fts = "unquoted" /\ \A i \in 1..Len(match) : match[i] # Quote

\* rows.slice(0, limit): LIMIT ?
Take(rows, limit) == SubSeq(rows, 1, IF limit < Len(rows) THEN limit ELSE Len(rows))

\* the elements of a set of rows as a list in the order of their id
ById(rows) ==
    LET ids == {r.id : r \in rows}
        S[k \in 0..Cardinality(ids)] ==
            IF k = 0 THEN <<>>
            ELSE Append(S[k - 1],
                        CHOOSE r \in rows :
                            Cardinality({j \in ids : j < r.id}) = k - 1)
    IN  S[Cardinality(ids)]

\* what a tool hands back
Returned(results, ran) == [thrown |-> FALSE, results |-> results, ran |-> ran]

Thrown(ran) == [thrown |-> TRUE, results |-> <<>>, ran |-> ran]

\* a statement: the table its MATCH is on, its parameters
Statement(table, match, asOf, limit) ==
    [table |-> table, match |-> match, asOf |-> asOf, limit |-> limit]

\* runCurrentQuery: the rows of legal_provisions the index finds, by
\* relevance, up to the limit
runCurrentQuery(ftsQuery, limit) ==
    LET ran == <<Statement("provisions_fts", ftsQuery, NotGiven, limit)>>
    IN  IF db.broken THEN Thrown(ran)
        ELSE Returned(Take(IF Finds(ftsQuery) THEN ById(db.provisions) ELSE <<>>,
                           limit), ran)

\* valid_from IS NULL OR valid_from <= ?, and valid_to IS NULL OR valid_to > ?
ValidOn(row, asOfDate) ==
    /\ ~row.valid_from.given \/ row.valid_from.value <= asOfDate.value
    /\ ~row.valid_to.given \/ row.valid_to.value > asOfDate.value

\* COALESCE(valid_from, '0000-01-01')
FromOrFirst(row) == IF row.valid_from.given THEN row.valid_from.value ELSE 0

\* version_rank = 1 within PARTITION BY document_id, provision_ref
\* ORDER BY COALESCE(valid_from, '0000-01-01') DESC, id DESC
RankedFirst(rows) ==
    {r \in rows :
        \A o \in rows :
            (o.document_id = r.document_id /\ o.provision_ref = r.provision_ref
             /\ o # r)
            => \/ FromOrFirst(o) < FromOrFirst(r)
               \/ FromOrFirst(o) = FromOrFirst(r) /\ o.id < r.id}

\* runHistoricalQuery, called with an asOfDate
runHistoricalQuery(ftsQuery, asOfDate, limit) ==
    LET ran == <<Statement("provision_versions_fts", ftsQuery, asOfDate, limit)>>
    IN  IF ~asOfDate.given THEN Returned(<<>>, <<>>)
        ELSE IF db.broken THEN Thrown(ran)
        ELSE Returned(
                 Take(IF Finds(ftsQuery)
                      THEN ById(RankedFirst({r \in db.versions : ValidOn(r, asOfDate)}))
                      ELSE <<>>, limit), ran)

\* queryWithFallback of searchLegislation, runProvisionQuery of
\* buildLegalStance
queryWithFallback(ftsQuery, asOfDate, limit) ==
    IF ~asOfDate.given THEN runCurrentQuery(ftsQuery, limit)
    ELSE LET historical == runHistoricalQuery(ftsQuery, asOfDate, limit)
             current == runCurrentQuery(ftsQuery, limit)
         IN  IF historical.thrown \/ Len(historical.results) > 0 THEN historical
             ELSE [current EXCEPT !.ran = historical.ran \o current.ran]

\* primary first, the fallback variant when the primary finds nothing
WithVariants(queryVariants, primaryResults, fallbackResults) ==
    IF primaryResults.thrown
       \/ Len(primaryResults.results) > 0
       \/ queryVariants.fallback = Undefined
    THEN primaryResults
    ELSE [fallbackResults EXCEPT !.ran = primaryResults.ran \o fallbackResults.ran]

\* !input.query || input.query.trim().length === 0
NoText(input) == input.text = Undefined \/ Trim(input.text) = <<>>

searchLegislation(input) ==
    IF ~input.given THEN Thrown(<<>>)
    ELSE IF NoText(input) THEN Returned(<<>>, <<>>)
    ELSE LET limit == LimitOf(input.limit, DEFAULT_LIMIT, MAX_LIMIT)
             Run(ftsQuery) == queryWithFallback(ftsQuery, input.asOfDate, limit)
             queryVariants == buildFtsQueryVariants(sanitizeFtsInput(input.text))
         IN  WithVariants(queryVariants, Run(queryVariants.primary),
                          Run(queryVariants.fallback))

buildLegalStance(input) ==
    IF ~input.given THEN Thrown(<<>>)
    ELSE IF NoText(input) THEN Returned(<<>>, <<>>)
    ELSE LET limit == LimitOf(input.limit, STANCE_DEFAULT_LIMIT, STANCE_MAX_LIMIT)
             Run(ftsQuery) == queryWithFallback(ftsQuery, input.asOfDate, limit)
             queryVariants == buildFtsQueryVariants(sanitizeFtsInput(input.text))
         IN  WithVariants(queryVariants, Run(queryVariants.primary),
                          Run(queryVariants.fallback))

\* run of searchCaseLaw
runCaseLaw(ftsQuery, limit) ==
    LET ran == <<Statement("case_law_fts", ftsQuery, NotGiven, limit)>>
    IN  IF db.broken \/ ~db.caseLaw THEN Thrown(ran)
        ELSE Returned(Take(IF Finds(ftsQuery) THEN ById(db.decisions) ELSE <<>>,
                           limit), ran)

searchCaseLaw(input) ==
    IF ~input.given THEN Thrown(<<>>)
    ELSE IF NoText(input) THEN Returned(<<>>, <<>>)
    ELSE LET limit == LimitOf(input.limit, DEFAULT_LIMIT, MAX_LIMIT)
             Run(ftsQuery) == runCaseLaw(ftsQuery, limit)
             queryVariants == buildFtsQueryVariants(sanitizeFtsInput(input.text))
         IN  WithVariants(queryVariants, Run(queryVariants.primary),
                          Run(queryVariants.fallback))

\* getDefinitions: the full-text statement for a term of two characters or
\* more, the LIKE statement for a shorter one
getDefinitions(input) ==
    IF ~input.given THEN Thrown(<<>>)
    ELSE IF NoText(input) THEN Returned(<<>>, <<>>)
    ELSE LET limit == LimitOf(input.limit, DEFAULT_LIMIT, MAX_LIMIT)
             sanitized == sanitizeFtsInput(input.text)
             ftsQuery == <<Quote>> \o sanitized \o <<Quote, "*">>
             like == <<"%">> \o sanitized \o <<"%">>
         IN  IF Len(sanitized) >= 2
             THEN IF db.broken \/ ~db.definitions
                  THEN Thrown(<<Statement("definitions_fts", ftsQuery, NotGiven, limit)>>)
                  ELSE Returned(Take(IF Finds(ftsQuery) THEN ById(db.terms) ELSE <<>>,
                                     limit),
                                <<Statement("definitions_fts", ftsQuery, NotGiven, limit)>>)
             ELSE IF db.broken \/ ~db.definitions
                  THEN Thrown(<<Statement("definitions", like, NotGiven, limit)>>)
                  ELSE Returned(Take(ById(db.terms), limit),
                                <<Statement("definitions", like, NotGiven, limit)>>)

----------------------------------------------------------------------------
(* The CallTool request handler of registerTools *)

\* the tools of the switch whose code is in other files: they return a
\* result, or raise when db.faulty is set
OtherTools ==
    {"get_provision", "validate_citation", "format_citation", "check_currency",
     "get_eu_basis", "get_belgian_implementations", "search_eu_implementations",
     "get_provision_eu_basis", "validate_eu_compliance"}

OtherTool(input) == IF db.faulty THEN Thrown(<<>>) ELSE Returned(<<>>, <<>>)

\* listSources: safeCount and readMeta catch what their statements raise
listSources == Returned(<<>>, <<>>)

\* { content: [{ type: 'text', text }], isError: true }
ErrorResponse(message) ==
    [content |-> <<[type |-> "text", text |-> message]>>, isError |-> TRUE]

\* { content: [{ type: 'text', text: JSON.stringify(result, null, 2) }] }
ResultResponse(results) ==
    [content |-> <<[type |-> "text", text |-> [json |-> results]]>>]

\* a handler that lets what a tool raises escape
RespondRethrows(outcome) ==
    [response |-> IF outcome.thrown THEN [escaped |-> TRUE]
                  ELSE ResultResponse(outcome.results),
     ran |-> outcome.ran]

\* the end of the try block, and its catch clause
Respond(outcome) ==
    [response |-> IF outcome.thrown THEN ErrorResponse("Error: message")
                  ELSE ResultResponse(outcome.results),
     ran |-> outcome.ran]

\* a response made inside the switch
Refuse(message) == [response |-> ErrorResponse(message), ran |-> <<>>]

\* the switch on the name of the tool
CallToolHandler(name, args) ==
    IF name = "search_legislation" THEN Respond(searchLegislation(args))
    ELSE IF name = "build_legal_stance" THEN Respond(buildLegalStance(args))
    ELSE IF name \in OtherTools THEN Respond(OtherTool(args))
    ELSE IF name = "list_sources" THEN Respond(listSources)
    ELSE IF name = "search_case_law"
    THEN IF db.broken THEN Respond(Thrown(<<>>))
         ELSE IF ~db.caseLaw THEN Refuse("upgradeMessage")
         ELSE Respond(searchCaseLaw(args))
    ELSE IF name = "get_definitions"
    THEN IF db.broken \/ ~db.definitions THEN Refuse("no definitions table")
         ELSE Respond(getDefinitions(args))
    ELSE IF name = "about"
    THEN IF db.context THEN Respond(OtherTool(args))
         ELSE Refuse("About tool not configured.")
    ELSE Refuse("Unknown tool")

----------------------------------------------------------------------------
(* Markup cleaning applied to a fragment, then to its own output *)

(* C9: markup cleaning is idempotent: cleaning the output of cleanArticleHtml
   again gives that output back, for every fragment. *)
C9_CleanIdempotent == cleanPasses = 2 => text = prevText

\* pieces of legacy markup and of escaped markup a law page can hold
CleanFragments ==
    { <<"&","a","m","p",";">>,
      <<"&","l","t",";">>,
      <<"&","g","t",";">>,
      <<"l","t",";">>,
      <<"&","n","b","s","p",";">>,
      <<"&","#","6","0",";">>,
      <<"&","e","a","c","u","t","e",";">>,
      <<"<","B","R",">">>,
      <<"<","b",">">>,
      <<"b">>,
      <<" ">>,
      <<"\n">> }

CleanInputs ==
    UNION { { Concat(f) : f \in [1..n -> CleanFragments] } : n \in 0..MaxFrags }

\* the variables of a component that a specification does not exercise
IdleClean == text = <<>> /\ prevText = <<>> /\ cleanPasses = 0

IdleDedupe == seedProvisions = <<>> /\ deduped = <<>> /\ dedupeDone = FALSE

IdleArticles == textHtml = <<>> /\ parsedProvisions = <<>> /\ parsed = FALSE

IdleIndex ==
    /\ indexPage = [kind |-> "index", links |-> <<>>]
    /\ indexLang = "fr"
    /\ indexEntries = <<>>
    /\ indexParsed = FALSE

\* no request to the tool server
IdleServer ==
    /\ call = [name |-> "none"]
    /\ db = [tables |-> {}]
    /\ statements = <<>>
    /\ response = [kind |-> "none"]

\* the pipeline before main runs, for given options and index file
IdlePipeline ==
    /\ seedFiles = {}
    /\ pc = "main"
    /\ year = 0
    /\ allEntries = <<>>
    /\ entries = <<>>
    /\ idx = 1
    /\ french = [processed |-> 0, failed |-> 0]
    /\ dutch = [processed |-> 0, failed |-> 0, skipped |-> 0]
    /\ fpc = "idle"
    /\ url = <<>>
    /\ attempt = 0
    /\ elapsed = RATE_LIMIT_MS
    /\ sinceRequest = RATE_LIMIT_MS
    /\ gap = RATE_LIMIT_MS
    /\ outcomes = <<>>
    /\ waits = <<>>
    /\ result = NoResult
    /\ attemptedYears = <<>>
    /\ fetchLog = <<>>
    /\ yearEntries = <<>>
    /\ before = [counters |-> [processed |-> 0, failed |-> 0], files |-> {}]
    /\ handled = "none"

\* no pipeline runs
NoPipeline ==
    /\ options = [phase |-> "all", lang |-> "both", yearStart |-> FirstYear,
                  yearEnd |-> FirstYear, limit |-> 0]
    /\ indexFile = NoFile
    /\ IdlePipeline


InitClean ==
    /\ text \in CleanInputs
    /\ prevText = <<>>
    /\ cleanPasses = 0
    /\ IdleDedupe
    /\ IdleArticles
    /\ IdleIndex
    /\ IdleServer
    /\ NoPipeline

\* one more application of cleanArticleHtml, to the text as it stands
CleanOnce ==
    /\ cleanPasses < 2
    /\ prevText' = text
    /\ text' = cleanArticleHtml(text)
    /\ cleanPasses' = cleanPasses + 1
    /\ UNCHANGED <<dedupeVars, articleVars, indexVars, serverVars, pipeVars>>

NextClean == CleanOnce

SpecClean == InitClean /\ [][NextClean]_vars


----------------------------------------------------------------------------
(* The record consolidator of the database builder *)

normalizeWhitespace(t) == Trim(ReplaceAll(t, Re("spaceRun", <<" ">>)))

\* byRef.get(ref): the position of ref's entry in the map, 0 when absent.
\* A Map is the sequence of its values in insertion order, keyed by their
\* provision_ref; setting an existing key keeps its position.
MapIndex(byRef, ref) ==
    IF \E k \in 1..Len(byRef) : byRef[k].provision_ref = ref
    THEN CHOOSE k \in 1..Len(byRef) : byRef[k].provision_ref = ref
    ELSE 0

\* provision.title || existing.title
TitleOr(title, other) == IF title # <<>> THEN title ELSE other

\* DedupeStep with the longer duplicate added to the map instead of replacing
\* the entry of its reference
DedupeStepAppendLonger(byRef, provision) ==
    LET ref == Trim(provision.provision_ref)
        at == MapIndex(byRef, ref)
    IN  IF at = 0
        THEN Append(byRef, [provision EXCEPT !.provision_ref = ref])
        ELSE IF Len(normalizeWhitespace(provision.content))
                  > Len(normalizeWhitespace(byRef[at].content))
             THEN Append(byRef, [provision EXCEPT !.provision_ref = ref])
             ELSE byRef

\* DedupeStep with a duplicate of equal length replacing the entry as well
DedupeStepKeepLatest(byRef, provision) ==
    LET ref == Trim(provision.provision_ref)
        at == MapIndex(byRef, ref)
    IN  IF at = 0
        THEN Append(byRef, [provision EXCEPT !.provision_ref = ref])
        ELSE IF Len(normalizeWhitespace(provision.content))
                  >= Len(normalizeWhitespace(byRef[at].content))
             THEN [byRef EXCEPT ![at] =
                      [provision EXCEPT
                          !.provision_ref = ref,
                          !.title = TitleOr(provision.title, byRef[at].title)]]
             ELSE byRef

\* DedupeStep with the longer duplicate deleted from the map and set anew, so
\* that its entry moves to the end
DedupeStepMoveToEnd(byRef, provision) ==
    LET ref == Trim(provision.provision_ref)
        at == MapIndex(byRef, ref)
    IN  IF at = 0
        THEN Append(byRef, [provision EXCEPT !.provision_ref = ref])
        ELSE IF Len(normalizeWhitespace(provision.content))
                  > Len(normalizeWhitespace(byRef[at].content))
             THEN Append(SubSeq(byRef, 1, at - 1) \o SubSeq(byRef, at + 1, Len(byRef)),
                         [provision EXCEPT
                             !.provision_ref = ref,
                             !.title = TitleOr(provision.title, byRef[at].title)])
             ELSE byRef

\* one iteration of the loop of dedupeProvisions
DedupeStep(byRef, provision) ==
    LET ref == Trim(provision.provision_ref)
        at == MapIndex(byRef, ref)
    IN  IF at = 0
        THEN Append(byRef, [provision EXCEPT !.provision_ref = ref])
        ELSE LET existing == byRef[at]
                 existingLen == Len(normalizeWhitespace(existing.content))
                 incomingLen == Len(normalizeWhitespace(provision.content))
             IN  IF incomingLen > existingLen
                 THEN [byRef EXCEPT ![at] =
                          [provision EXCEPT
                              !.provision_ref = ref,
                              !.title = TitleOr(provision.title, existing.title)]]
                 ELSE byRef

dedupeProvisions(provisions) ==
    LET B[k \in 0..Len(provisions)] ==
            \* the map after the first k provisions
            IF k = 0 THEN <<>>
            ELSE CHOOSE out \in {DedupeStep(byRef, provisions[k]) :
                                    byRef \in {B[k - 1]}} : TRUE
    IN  B[Len(provisions)]

\* the provisions a seed file can hold
SeedRefs ==
    { <<"a","r","t","1">>, <<" ","a","r","t","1">>, <<"a","r","t","2">> }

SeedTitles == { <<>>, <<"T">> }

SeedContents == { <<"a","b">>, <<"a"," "," ","b">>, <<"a","b","c">> }

ProvisionSeeds ==
    [provision_ref : SeedRefs, section : {<<"1">>}, title : SeedTitles,
     content : SeedContents]

InitDedupe ==
    /\ \E n \in 0..MaxProvisions : seedProvisions \in [1..n -> ProvisionSeeds]
    /\ deduped = <<>>
    /\ dedupeDone = FALSE
    /\ IdleClean
    /\ IdleArticles
    /\ IdleIndex
    /\ IdleServer
    /\ NoPipeline

\* const provisions = dedupeProvisions(seed.provisions || [])
Dedupe ==
    /\ ~dedupeDone
    /\ deduped' = dedupeProvisions(seedProvisions)
    /\ dedupeDone' = TRUE
    /\ UNCHANGED <<seedProvisions, cleanVars, articleVars, indexVars, serverVars,
                   pipeVars>>

NextDedupe == Dedupe

SpecDedupe == InitDedupe /\ [][NextDedupe]_vars

\* the trimmed references of a list of provisions
TrimmedRefs(provisions) ==
    {Trim(provisions[k].provision_ref) : k \in 1..Len(provisions)}

(* C10: the output of dedupeProvisions holds exactly one record for each
   distinct trimmed provision_ref of the input: no reference twice, and none
   of the input's references missing. *)
C10_OneRecordPerRef ==
    dedupeDone =>
        /\ \A j, k \in 1..Len(deduped) :
               deduped[j].provision_ref = deduped[k].provision_ref => j = k
        /\ {deduped[k].provision_ref : k \in 1..Len(deduped)}
               = TrimmedRefs(seedProvisions)

\* consolidated: an input where two provisions share a reference only after
\* trimming, and a third reference stands between or beside them
C10_Witness ==
    /\ dedupeDone
    /\ Len(seedProvisions) = 3
    /\ Len(deduped) = 2
    /\ \E j, k \in 1..3 :
          /\ seedProvisions[j].provision_ref # seedProvisions[k].provision_ref
          /\ Trim(seedProvisions[j].provision_ref)
                = Trim(seedProvisions[k].provision_ref)


\* the input provisions whose trimmed reference is ref
Sharing(ref) ==
    {i \in 1..Len(seedProvisions) : Trim(seedProvisions[i].provision_ref) = ref}

\* the whitespace-normalized length of the content of the i-th input provision
NormLen(i) == Len(normalizeWhitespace(seedProvisions[i].content))

\* the earliest of the input provisions of ref that have the longest
\* normalized content
Longest(ref) ==
    CHOOSE i \in Sharing(ref) :
        \A j \in Sharing(ref) :
            NormLen(i) > NormLen(j) \/ (NormLen(i) = NormLen(j) /\ i <= j)

(* C11: the record kept for a reference has the content of the input
   provision of that reference whose whitespace-normalized content is
   longest, the earliest of them on a tie, however many provisions share the
   reference and in whatever order. *)
C11_LongestContentKept ==
    dedupeDone =>
        \A k \in 1..Len(deduped) :
            /\ deduped[k].content
                   = seedProvisions[Longest(deduped[k].provision_ref)].content
            /\ \A j \in Sharing(deduped[k].provision_ref) :
                   Len(normalizeWhitespace(deduped[k].content)) >= NormLen(j)

\* consolidated: three provisions of one reference, the second longer than
\* the first and as long, once normalized, as the third, whose content
\* differs
C11_Witness ==
    /\ dedupeDone
    /\ Len(seedProvisions) = 3
    /\ Len(deduped) = 1
    /\ NormLen(2) > NormLen(1)
    /\ NormLen(2) = NormLen(3)
    /\ seedProvisions[2].content # seedProvisions[3].content
    /\ deduped[1].content = seedProvisions[2].content

\* the input is two provisions of one reference
TwoOfOneRef ==
    /\ Len(seedProvisions) = 2
    /\ Trim(seedProvisions[1].provision_ref) = Trim(seedProvisions[2].provision_ref)

(* C12: of two provisions that share a reference, the one kept takes the
   title of the one discarded whenever it has no title itself, whichever of
   the two comes first in the input. *)
C12_TitleFallback ==
    (dedupeDone /\ TwoOfOneRef) =>
        LET kept == IF NormLen(2) > NormLen(1) THEN 2 ELSE 1
            discarded == 3 - kept
        IN  /\ Len(deduped) = 1
            /\ seedProvisions[kept].title = <<>> =>
                   deduped[1].title = seedProvisions[discarded].title

\* the distinct trimmed references of provisions in the order of their first
\* occurrence
FirstSeenRefs(provisions) ==
    LET F[k \in 0..Len(provisions)] ==
            IF k = 0 THEN <<>>
            ELSE IF \E j \in 1..(k - 1) :
                        Trim(provisions[j].provision_ref)
                            = Trim(provisions[k].provision_ref)
                 THEN F[k - 1]
                 ELSE Append(F[k - 1], Trim(provisions[k].provision_ref))
    IN  F[Len(provisions)]

(* C13: the output lists the distinct references in the order of their
   first occurrence in the input, also when a later duplicate has replaced
   the record stored first for a reference. *)
C13_FirstSeenOrder ==
    dedupeDone =>
        [k \in 1..Len(deduped) |-> deduped[k].provision_ref]
            = FirstSeenRefs(seedProvisions)

\* consolidated: the third provision has replaced the record of the first,
\* and another reference stands between them
C13_Witness ==
    /\ dedupeDone
    /\ Len(seedProvisions) = 3
    /\ Len(deduped) = 2
    /\ Trim(seedProvisions[1].provision_ref) = Trim(seedProvisions[3].provision_ref)
    /\ Trim(seedProvisions[2].provision_ref) # Trim(seedProvisions[1].provision_ref)
    /\ NormLen(3) > NormLen(1)
    /\ deduped[1].content = seedProvisions[3].content
    /\ deduped[2].provision_ref = Trim(seedProvisions[2].provision_ref)

----------------------------------------------------------------------------
(* The article splitter applied to the markup of a text section *)

\* <A NAME='Art.ref'></A>
AnchorTag(ref) ==
    <<"<","A"," ","N","A","M","E","=","'","A","r","t",".">> \o ref
        \o <<"'",">","<","/","A",">">>

\* the reference of the k-th anchor of a generated document
AnchorRefs == << <<"1","e","r">>, <<"2">>, <<"3">>, <<"4">>, <<"5">> >>

LineBreak == <<"<","B","R",">">>

HeadingI == <<"C","H","A","P","I","T","R","E"," ","I","."," ","-"," ","O","b","j","e","t">>

HeadingII == <<"H","O","O","F","D","S","T","U","K"," ","I","I","."," ","-"," ","S","l","o","t">>

\* what stands between two anchors (and before the first, after the last):
\* nothing, text, text and one chapter heading, text and two headings
Gaps ==
    { <<>>,
      <<"x">>,
      <<"x">> \o LineBreak \o HeadingI \o LineBreak,
      <<"x">> \o LineBreak \o HeadingI \o LineBreak \o HeadingII \o LineBreak }

\* gap, anchor 1, gap, anchor 2, ..., anchor n, gap
AnchoredDoc(gaps) ==
    LET D[k \in 1..Len(gaps)] ==
            IF k = 1 THEN gaps[1]
            ELSE D[k - 1] \o AnchorTag(AnchorRefs[k - 1]) \o gaps[k]
    IN  D[Len(gaps)]

\* pieces of a text section without anchors
PlainPieces ==
    { <<"A","r","t","i","c","l","e"," ","1"," ","x">> \o LineBreak,
      <<"A","r","t","."," ","2"," ","y">> \o LineBreak,
      <<"z"," ">>,
      <<"A","r","t","i","c","l","e"," ","2"," ","w">>,
      HeadingI \o LineBreak }

\* anchor tokens other than plain numbers: upper case, a period, a slash, a
\* hyphen
SpecialRefs ==
    { <<"1","E","R">>, <<"N","1">>, <<"2",".","1">>, <<"3","/","1">>,
      <<"5","-","2">> }

TextSections ==
    UNION { { AnchoredDoc(g) : g \in [1..(n + 1) -> Gaps] } : n \in 0..MaxArticles }
    \cup { AnchorTag(ref) \o <<"x">> : ref \in SpecialRefs }
    \cup UNION { { Concat(f) : f \in [1..n -> PlainPieces] } : n \in 0..MaxArticles }

InitArticles ==
    /\ textHtml \in TextSections
    /\ parsedProvisions = <<>>
    /\ parsed = FALSE
    /\ IdleClean
    /\ IdleDedupe
    /\ IdleIndex
    /\ IdleServer
    /\ NoPipeline

\* const provisions = parseArticles(textHtml)
ParseArticles ==
    /\ ~parsed
    /\ parsedProvisions' = parseArticles(textHtml)
    /\ parsed' = TRUE
    /\ UNCHANGED <<textHtml, cleanVars, dedupeVars, indexVars, serverVars, pipeVars>>

NextArticles == ParseArticles

SpecArticles == InitArticles /\ [][NextArticles]_vars

\* the positions of the article anchors of the input, and of its chapter
\* headings
AnchorStarts == MatchStartsIn(textHtml, Re("articleAnchor", <<>>))

HeadingStarts == {i \in 1..Len(textHtml) : ChapterAt(textHtml, i).found}

\* the text of the k-th article span of the input: from its anchor to the
\* next anchor (or the end)
SpanText(k) ==
    Trim(cleanArticleHtml(
        SubSeq(textHtml, AnchorStarts[k],
               (IF k < Len(AnchorStarts) THEN AnchorStarts[k + 1]
                ELSE Len(textHtml) + 1) - 1)))

\* the input has the anchors Art.1er, Art.2, Art.3, each followed by text,
\* and one chapter heading, which stands between the anchor of Art.1er and
\* the anchor of Art.2
OneHeadingAfterFirstAnchor ==
    /\ Len(AnchorStarts) = 3
    /\ \A k \in 1..3 : ArticleAnchorRef(textHtml, AnchorStarts[k]) = AnchorRefs[k]
    /\ \A k \in 1..3 : SpanText(k) # <<>>
    /\ Cardinality(HeadingStarts) = 1
    /\ \A i \in HeadingStarts : AnchorStarts[1] < i /\ i < AnchorStarts[2]

(* C8: for a fragment with the anchors Art.1er, Art.2, Art.3 and one chapter
   heading between the Art.1er anchor and the Art.2 anchor, parseArticles
   yields three articles; articles 2 and 3 carry the chapter label and
   article 1 carries none. *)
C8_ChapterFromSecondArticle ==
    (parsed /\ OneHeadingAfterFirstAnchor) =>
        /\ Len(parsedProvisions) = 3
        /\ parsedProvisions[1].chapter = Undefined
        /\ parsedProvisions[2].chapter # Undefined
        /\ parsedProvisions[3].chapter = parsedProvisions[2].chapter


\* the anchors of the input whose span holds text, in document order
NonEmptySpans ==
    SelectSeq([k \in 1..Len(AnchorStarts) |-> k], LAMBDA k : SpanText(k) # <<>>)

\* the positions of the input where an article boundary of the plain-text
\* strategy stands
BoundaryStarts == {i \in 1..Len(textHtml) : BoundaryDigits(textHtml, i) > 0}

\* the input has no anchor and two plain-text boundaries: Article 1, then
\* Article 2
TwoPlainBoundaries ==
    /\ Len(AnchorStarts) = 0
    /\ \E i, j \in BoundaryStarts :
           /\ i < j
           /\ BoundaryStarts = {i, j}
           /\ LitAt(textHtml, i, <<"A","r","t","i","c","l","e"," ","1"," ">>)
           /\ LitAt(textHtml, j, <<"A","r","t","i","c","l","e"," ","2"," ">>)

\* the reference the k-th anchor of the input is written with: what stands
\* between Art. and the closing apostrophe of its NAME
WrittenRef(k) ==
    LET head == <<"<","A"," ","N","A","M","E","=","'","A","r","t",".">>
        rest == SubSeq(textHtml, AnchorStarts[k] + Len(head), Len(textHtml))
        close == CHOOSE j \in 1..Len(rest) :
                     rest[j] = "'" /\ \A m \in 1..(j - 1) : rest[m] # "'"
    IN  SubSeq(rest, 1, close - 1)

(* C17: parseArticles takes the plain-text strategy exactly when the input
   has no Art.X anchor: without anchors every plain-text boundary yields an
   article and none carries a chapter label, and two boundaries Article 1,
   Article 2 yield exactly two articles; with anchors the articles are those
   of the anchors. *)
C17_FallbackOnlyWithoutAnchors ==
    parsed =>
        /\ Len(AnchorStarts) = 0 =>
               /\ Len(parsedProvisions) = Cardinality(BoundaryStarts)
               /\ \A k \in 1..Len(parsedProvisions) :
                      parsedProvisions[k].chapter = Undefined
        /\ Len(AnchorStarts) > 0 =>
               [k \in 1..Len(parsedProvisions) |-> parsedProvisions[k].provision_ref]
                   = [k \in 1..Len(NonEmptySpans) |->
                         <<"a","r","t">>
                             \o StripPeriods(LowerStr(WrittenRef(NonEmptySpans[k])))]
        /\ TwoPlainBoundaries =>
               /\ Len(parsedProvisions) = 2
               /\ parsedProvisions[1].provision_ref = <<"a","r","t","1">>
               /\ parsedProvisions[2].provision_ref = <<"a","r","t","2">>

\* parsed: no anchor, Article 1 and Article 2, and a chapter heading between
\* them
C17_Witness ==
    /\ parsed
    /\ TwoPlainBoundaries
    /\ \E h \in HeadingStarts :
           \A i \in BoundaryStarts :
               (LitAt(textHtml, i, <<"A","r","t","i","c","l","e"," ","1">>) => i < h)
               /\ (LitAt(textHtml, i, <<"A","r","t","i","c","l","e"," ","2">>) => h < i)
    /\ Len(parsedProvisions) = 2
    /\ parsedProvisions[2].chapter = Undefined

\* the label of the last chapter heading that starts before position pos of
\* the input, Undefined when no heading does
NearestChapterBefore(pos) ==
    LET earlier == {i \in HeadingStarts : i < pos}
    IN  IF earlier = {} THEN Undefined
        ELSE ChapterLabel(ChapterAt(textHtml,
                 CHOOSE i \in earlier : \A j \in earlier : j <= i)).label

(* C20: in the anchor strategy every article carries the label of the
   nearest chapter heading that precedes its anchor in the document, and no
   label when no heading precedes it, also when several headings stand
   between two consecutive anchors. *)
C20_NearestPrecedingHeading ==
    (parsed /\ Len(AnchorStarts) > 0) =>
        /\ Len(parsedProvisions) = Len(NonEmptySpans)
        /\ \A n \in 1..Len(parsedProvisions) :
               parsedProvisions[n].chapter
                   = NearestChapterBefore(AnchorStarts[NonEmptySpans[n]])

\* a lower-case letter or a digit
IsLowerAlnum(c) == IsDigit(c) \/ \E k \in 1..26 : LowerLetters[k] = c

(* C28: every provision_ref of the anchor strategy is normalized: it is
   'art' followed by the token of the anchor in lower case with its
   punctuation removed, so it holds lower-case letters and digits only. *)
C28_RefNormalized ==
    (parsed /\ Len(AnchorStarts) > 0) =>
        /\ Len(parsedProvisions) = Len(NonEmptySpans)
        /\ \A n \in 1..Len(parsedProvisions) :
               LET ref == parsedProvisions[n].provision_ref
                   token == ArticleAnchorRef(textHtml, AnchorStarts[NonEmptySpans[n]])
               IN  /\ ref = <<"a","r","t">>
                             \o SelectSeq(LowerStr(token), IsLowerAlnum)
                   /\ \A k \in 1..Len(ref) : IsLowerAlnum(ref[k])



----------------------------------------------------------------------------
(* A run of the ingestion pipeline against a portal that answers each
   request with a page, a status that is not ok, or not at all *)

\* the a[href] elements of the index page of year y
LinkA(y) ==
    [href |-> <<"/","e","l","i","/","l","o","i","/">> \o NumStr(y) \o <<"/","0","1","/","1","2","/">> \o NumStr(y)
                  \o <<"0","1","0","1","0","1","/","j","u","s","t","e","l">>,
     inRow |-> TRUE,
     cells |-> << <<"1">>,
                  <<"1","2"," ","J","A","N","V","I","E","R","."," ","-"," ","L","o","i"," "," ","A"," ","(","1",")"," ","P","u","b","l","i","U233"," ","l","e"," ","0","1","-","0","2","-">> \o NumStr(y)
                      \o <<"\n","S","o","u","r","c","e"," ",":"," ","J","U","S","T","I","C","E"," ","\n">> >>]

LinkGerman(y) ==
    [href |-> <<"/","e","l","i","/","l","o","i","/">> \o NumStr(y) \o <<"/","0","2","/","0","3","/">> \o NumStr(y)
                  \o <<"0","2","0","2","0","2","/","j","u","s","t","e","l">>,
     inRow |-> TRUE,
     cells |-> << <<"2">>, <<"L","o","i"," ","A"," ","-"," ","T","r","a","d","u","c","t","i","o","n"," ","a","l","l","e","m","a","n","d","e">> >>]

LinkNoRow(y) ==
    [href |-> <<"/","e","l","i","/","l","o","i","/">> \o NumStr(y) \o <<"/","0","3","/","0","3","/">> \o NumStr(y)
                  \o <<"0","3","0","3","0","3","/","j","u","s","t","e","l">>,
     inRow |-> FALSE,
     cells |-> <<>>]

LinkOther == [href |-> <<"/","c","g","i","/","l","o","i","/","j","u","s","t","e","l",".","p","l">>, inRow |-> TRUE, cells |-> <<>>]

LinkB(y) ==
    [href |-> BASE_URL \o <<"/","e","l","i","/","l","o","i","/">> \o NumStr(y) \o <<"/","0","4","/","0","4","/">> \o NumStr(y)
                  \o <<"0","4","0","1","2","3","/","j","u","s","t","e","l">>,
     inRow |-> TRUE,
     cells |-> << <<"3">>, <<"4"," ","A","V","R","I","L","."," ","-"," ","L","o","i"," ","B">> >>]

EmptyPage == [kind |-> "index", links |-> <<>>]

FullPage(y) ==
    [kind |-> "index",
     links |-> <<LinkOther, LinkA(y), LinkGerman(y), LinkNoRow(y), LinkB(y)>>]

SinglePage(y) == [kind |-> "index", links |-> <<LinkNoRow(y), LinkB(y)>>]

\* a page that lists one law twice
RepeatPage(y) == [kind |-> "index", links |-> <<LinkB(y), LinkB(y)>>]

\* the index pages of year y: the index of a year after the first can also
\* list one law twice
YearPages(y) ==
    {EmptyPage, SinglePage(y), FullPage(y)}
        \cup (IF y > FirstYear THEN {RepeatPage(y)} ELSE {})

\* the pages the portal can answer a year index request with, listing listed
\* laws at most, for every year a run can ask for
IndexPages ==
    [y \in FirstYear..(FirstYear + MaxYears) |->
        [listed \in 0..MaxLaws |->
            {page \in YearPages(y) :
                Len(parseYearIndex(page, "fr")) <= listed}
            \cup {Garbage}]]

ArticlesPage ==
    [kind |-> "law",
     titleEl |-> [found |-> TRUE, textContent |-> <<" ","L","o","i"," "," ","A","\n">>],
     textSection |-> [found |-> TRUE,
                      innerHTML |-> <<"A","r","t","."," ","1"," ","x","<","b","r",">","A","r","t","."," ","2"," ","y"," ","A","r","t","."," ","2">>]]

NoTextPage ==
    [kind |-> "law",
     titleEl |-> [found |-> TRUE, textContent |-> <<"L","o","i"," ","A">>],
     textSection |-> [found |-> FALSE, innerHTML |-> <<>>]]

NoArticlesPage ==
    [kind |-> "law",
     titleEl |-> [found |-> FALSE, textContent |-> <<>>],
     textSection |-> [found |-> TRUE, innerHTML |-> <<"<","p",">","z","<","/","p",">">>]]

\* the pages the portal can answer a law request with
LawPages == {ArticlesPage, NoTextPage, NoArticlesPage, Garbage}

\* the pages the portal can answer the request in flight with
ServerPages ==
    IF pc = "discovery" THEN IndexPages[year][MaxLaws - Len(allEntries)]
    ELSE LawPages

\* how long a request can take, in milliseconds
Durations == {FastMs, SlowMs}

\* the index file an earlier run left
PriorIndex == [exists |-> TRUE, entries |-> parseYearIndex(FullPage(FirstYear), "fr")]

Init ==
    /\ options \in [phase : {"all", "discovery", "content"},
                    lang : {"fr", "nl", "both"},
                    yearStart : {FirstYear},
                    yearEnd : (FirstYear - 1)..(FirstYear + MaxYears - 1),
                    limit : 0..MaxLimit]
    \* an option that no stage of the run reads has its default: the
    \* language of a run that fetches no law, the last year of a run that
    \* fetches no index
    /\ options.phase = "discovery" => options.lang = "both"
    /\ options.phase = "content" => options.yearEnd = FirstYear + MaxYears - 1
    /\ indexFile \in {NoFile, PriorIndex}
    /\ IdlePipeline
    /\ IdleClean
    /\ IdleDedupe
    /\ IdleArticles
    /\ IdleIndex
    /\ IdleServer

Next ==
    \/ Main
    \/ DiscoveryFetch
    \/ DiscoveryParsed
    \/ DiscoveryFailed
    \/ DiscoverySaved
    \/ FrenchFetch
    \/ FrenchParsed
    \/ FrenchFailed
    \/ FrenchDone
    \/ DutchFetch
    \/ DutchParsed
    \/ DutchFailed
    \/ DutchDone
    \/ RateLimitWaitDone
    \/ /\ fpc = "inflight"
       /\ \E ms \in Durations, body \in ServerPages : RequestSucceeds(ms, body)
    \/ \E ms \in Durations, status \in FailStatuses : RequestFails(ms, status)
    \/ BackoffDone

Spec == Init /\ [][Next]_vars

\* the event loop runs every continuation that is ready: timers fire and
\* requests are answered or fail
FairSpec == Spec /\ WF_vars(Next)

----------------------------------------------------------------------------
(* parseYearIndex applied to one year index page *)

\* a link to /eli/loi/ and /justel that carries no date and no identifier
LinkShort ==
    [href |-> <<"/","e","l","i","/","l","o","i","/","1","9","9","4","/","j","u","s","t","e","l">>,
     inRow |-> TRUE,
     cells |-> << <<"5">>, <<"L","o","i"," ","E">> >>]

\* a law whose cell names the German translation after the publication
\* marker
LinkLate ==
    [href |-> <<"/","e","l","i","/","l","o","i","/","1","9","9","4","/","0","5","/","0","5","/","1","9","9","4","0","5","0","5","0","5","/","j","u","s","t","e","l">>,
     inRow |-> TRUE,
     cells |-> << <<"6">>, <<"L","o","i"," ","F"," ","P","u","b","l","i","U233"," ","l","e"," ","0","1","-","0","6","-","1","9","9","4"," ","T","r","a","d","u","c","t","i","o","n"," ","a","l","l","e","m","a","n","d","e">> >>]

\* a Dutch German-translation notice
LinkDutch ==
    [href |-> BASE_URL \o <<"/","e","l","i","/","w","e","t","/","1","9","9","4","/","0","6","/","0","6","/","1","9","9","4","0","6","0","6","0","6","/","j","u","s","t","e","l">>,
     inRow |-> TRUE,
     cells |-> << <<"7">>, <<"W","e","t"," ","G"," ","-"," ","D","u","i","t","s","e"," ","v","e","r","t","a","l","i","n","g">> >>]

\* a law of a year below 1000
LinkOld ==
    [href |-> BASE_URL \o <<"/","e","l","i","/","w","e","t","/","0","9","9","4","/","0","7","/","0","7","/","7","/","j","u","s","t","e","l">>,
     inRow |-> TRUE,
     cells |-> << <<"8">>, <<"W","e","t"," ","H">> >>]

\* a law in a row of one cell
LinkOneCell ==
    [href |-> <<"/","e","l","i","/","l","o","i","/","1","9","9","4","/","0","8","/","0","8","/","1","9","9","4","0","8","0","8","0","8","/","j","u","s","t","e","l">>,
     inRow |-> TRUE,
     cells |-> << <<"9">> >>]

IndexLinks ==
    {LinkA(FirstYear), LinkB(FirstYear), LinkGerman(FirstYear),
     LinkNoRow(FirstYear), LinkOther, LinkShort, LinkLate, LinkDutch, LinkOld,
     LinkOneCell}

InitIndex ==
    /\ \E n \in 0..MaxLinks :
           \E links \in [1..n -> IndexLinks] :
               indexPage = [kind |-> "index", links |-> links]
    /\ indexLang \in {"fr", "nl"}
    /\ indexEntries = <<>>
    /\ indexParsed = FALSE
    /\ IdleClean
    /\ IdleDedupe
    /\ IdleArticles
    /\ IdleServer
    /\ NoPipeline

\* const entries = parseYearIndex(html, lang)
ParseIndex ==
    /\ ~indexParsed
    /\ indexEntries' = parseYearIndex(indexPage, indexLang)
    /\ indexParsed' = TRUE
    /\ UNCHANGED <<indexPage, indexLang, cleanVars, dedupeVars, articleVars,
                   serverVars, pipeVars>>

NextIndex == ParseIndex

SpecIndex == InitIndex /\ [][NextIndex]_vars

\* the href of the link decomposes into year, month, day and identifier
Decomposable(link) == UrlMatch(link.href).found

\* the description cell of the link's row holds a German-translation marker
GermanMarkerInCell(link) ==
    /\ link.inRow
    /\ Len(link.cells) >= 2
    /\ IsGermanTranslation(link.cells[2])

\* a valid law anchor
ValidAnchor(link) ==
    Decomposable(link) /\ link.inRow /\ ~GermanMarkerInCell(link)

(* C14: on a page whose anchors are N valid law anchors and M anchors
   without a decomposable link, parseYearIndex returns N entries, those of
   the valid anchors in page order, and the k-th entry has index k. *)
C14_ValidAnchorsInOrder ==
    (indexParsed
     /\ \A k \in 1..Len(indexPage.links) :
            ValidAnchor(indexPage.links[k]) \/ ~Decomposable(indexPage.links[k]))
    => LET valid == SelectSeq(indexPage.links, ValidAnchor)
       IN  /\ Len(indexEntries) = Len(valid)
           /\ \A k \in 1..Len(indexEntries) :
                  /\ indexEntries[k].index = k
                  /\ indexEntries[k].justelUrl = FullUrl(valid[k].href)

\* parsed: a page of two different valid anchors with an anchor without a
\* decomposable link between them
C14_Witness ==
    /\ indexParsed
    /\ Len(indexPage.links) = 3
    /\ ValidAnchor(indexPage.links[1])
    /\ ~Decomposable(indexPage.links[2])
    /\ ValidAnchor(indexPage.links[3])
    /\ indexPage.links[1] # indexPage.links[3]
    /\ Len(indexEntries) = 2
    /\ indexEntries[2].index = 2

(* C15: an anchor whose description cell holds a German-translation marker
   anywhere in its text produces no entry, for lang 'fr' and 'nl' alike. *)
C15_GermanExcluded ==
    indexParsed =>
        \A k \in 1..Len(indexPage.links) :
            GermanMarkerInCell(indexPage.links[k]) =>
                \A j \in 1..Len(indexEntries) :
                    indexEntries[j].justelUrl # FullUrl(indexPage.links[k].href)

\* u is a content URL of language lang: the base host, then
\* /eli/{loi|wet}/YYYY/MM/DD/identifier/justel and nothing more
IsContentUrl(u, lang) ==
    /\ Len(u) > Len(BASE_URL) + 21
    /\ SubSeq(u, 1, Len(BASE_URL)) = BASE_URL
    /\ LitAt(u, Len(BASE_URL) + 1, <<"/","e","l","i","/">> \o PathSegment(lang) \o <<"/">>)
    /\ UrlTail(u, Len(BASE_URL) + 10, SkipDigits(u, Len(BASE_URL) + 21))
    /\ SkipDigits(u, Len(BASE_URL) + 21) + 7 = Len(u) + 1

(* C16: the year, month, day and identifier parseYearIndex takes from a
   valid content URL give that URL back through buildJustelUrl of the same
   language: every entry's canonical URL is rebuilt from its date and
   identifier. *)
C16_UrlRoundTrip ==
    indexParsed =>
        \A k \in 1..Len(indexEntries) :
            \A lang \in {"fr", "nl"} :
                IsContentUrl(indexEntries[k].justelUrl, lang) =>
                    buildJustelUrl(indexEntries[k].year, indexEntries[k].month,
                                   indexEntries[k].day, indexEntries[k].numac,
                                   lang)
                        = indexEntries[k].justelUrl

----------------------------------------------------------------------------
(* Properties of the fetcher *)

(* C1: any two consecutive HTTP request initiations, retries included, are
   at least 500 ms apart. *)
C1_RequestSpacing == gap >= 500

\* the attempts of the call under way that failed
FailedAttempts == {k \in 1..Len(outcomes) : outcomes[k] # OkStatus}

(* C2: one rateLimitedFetch call makes at most 3 attempts; it returns the
   body of the first attempt that succeeds and makes no attempt after it; it
   throws, and returns nothing, only when 3 attempts have failed, and what
   it throws is the error of the last attempt. *)
C2_AtMostThreeAttempts ==
    /\ Len(outcomes) <= 3
    /\ attempt <= 3
    /\ fpc \in {"inflight", "backoff"} => FailedAttempts = 1..Len(outcomes)
    /\ fpc = "returned" =>
           /\ outcomes[Len(outcomes)] = OkStatus
           /\ FailedAttempts = 1..(Len(outcomes) - 1)
           /\ result.kind = "value"
    /\ fpc = "thrown" =>
           /\ Len(outcomes) = 3
           /\ FailedAttempts = 1..3
           /\ result = [kind |-> "error", error |-> AttemptError(outcomes[3], url)]

\* a call has thrown
C2_Witness == fpc = "thrown" /\ Len(outcomes) = 3 /\ result.kind = "error"

(* C3: the wait after failed attempt n is n * 1000 ms: 1000 ms after the
   first failure, 2000 ms after the second, none after the third; a call
   that fails twice and then succeeds has waited 1000 ms then 2000 ms and
   returns the result. *)
C3_LinearBackoff ==
    /\ fpc \in {"inflight", "backoff", "returned", "thrown"} =>
           waits = [k \in 1..(IF Cardinality(FailedAttempts) < 2
                              THEN Cardinality(FailedAttempts) ELSE 2) |-> k * 1000]
    /\ (fpc = "returned" /\ Len(outcomes) = 3) =>
           waits = <<1000, 2000>> /\ result.kind = "value"
    /\ fpc = "thrown" => waits = <<1000, 2000>>

\* a call has failed twice and then succeeded
C3_Witness ==
    /\ fpc = "returned"
    /\ outcomes \in {<<a, b, OkStatus>> : a, b \in FailStatuses}
    /\ waits = <<1000, 2000>>

----------------------------------------------------------------------------
(* Properties of the orchestrator *)

(* C4: a Dutch entry whose fetch was answered 404 on every attempt is
   counted as skipped and leaves the failed counter as it was. *)
C4_NotFoundIsNotFailed ==
    (pc = "dutch" /\ handled = "notfound") =>
        /\ dutch.skipped = before.counters.skipped + 1
        /\ dutch.failed = before.counters.failed

\* a content-only run without an index file
NoIndexToResume == options.phase = "content" /\ ~indexFile.exists

(* C5: whatever fails for a year or for a law, a run reaches 'Done.'; the
   one run that exits with a failure instead is the content-only run that
   finds no index file. *)
C5_RunCompletes ==
    /\ (pc = "main" /\ ~NoIndexToResume) ~> (pc = "done")
    /\ [](pc = "exit" => NoIndexToResume)

\* a run is done in which a year has added no entry and a French law and a
\* Dutch law have failed
C5_Witness ==
    /\ pc = "done"
    /\ french.failed > 0
    /\ dutch.failed > 0
    /\ \E k \in 1..Len(yearEntries) : yearEntries[k] = <<>>

\* the years of the range of the run, ascending
YearRange ==
    [k \in 1..(IF options.yearEnd >= options.yearStart
               THEN options.yearEnd - options.yearStart + 1 ELSE 0) |->
        options.yearStart + k - 1]

(* C6: runDiscovery attempts every year of [yearStart, yearEnd] once, in
   ascending order, whatever fails; a failed year adds no entry, and the
   entries of the other years are accumulated in year order. *)
C6_EveryYearAttempted ==
    /\ attemptedYears = SubSeq(YearRange, 1, Len(attemptedYears))
    /\ allEntries = Concat(yearEntries)
    /\ (pc \in {"french", "dutch", "done"} /\ options.phase # "content") =>
           /\ attemptedYears = YearRange
           /\ Len(yearEntries) = Len(YearRange)

\* the first year of the range has failed, and the request for the second
\* year was made after it and has returned an index page that lists laws
C6_Witness ==
    /\ pc = "discovery"
    /\ fpc = "returned"
    /\ handled = "caught"
    /\ attemptedYears = <<FirstYear, FirstYear + 1>>
    /\ yearEntries = << <<>> >>
    /\ result.body.kind = "index"
    /\ result.body.links # <<>>

(* C7: no artifact without provisions is ever written: every seed file
   holds at least one provision, an entry without articles leaves the seed
   files as they were, and in the French stage it leaves the failed count
   as it was. *)
C7_NoEmptyArtifact ==
    /\ \A f \in seedFiles : Len(f.provisions) >= 1
    /\ handled = "empty" => seedFiles = before.files
    /\ (pc = "french" /\ handled = "empty") =>
           /\ french.failed = before.counters.failed
           /\ french.processed = before.counters.processed

\* a French entry without articles was skipped after another was written
C7_Witness == pc = "french" /\ handled = "empty" /\ seedFiles # {}

(* C18: every seed file the content stages have written holds a
   consolidated article list: no two of its provisions share a
   provision_ref, whatever references the parser produced for the law. *)
C18_NoDuplicateRefs ==
    \A f \in seedFiles :
        \A j, k \in 1..Len(f.provisions) :
            f.provisions[j].provision_ref = f.provisions[k].provision_ref => j = k

\* the place of a kind of fetch in the order of the stages
StageRank(kind) == IF kind = "index" THEN 1 ELSE IF kind = "fr" THEN 2 ELSE 3

\* how many fetches of one kind the run has issued
Fetches(kind) == Cardinality({i \in 1..Len(fetchLog) : fetchLog[i] = kind})

(* C19: the stages compose in a fixed order.  In a run of all phases and
   both languages every year-index fetch comes before every French law
   fetch and every French law fetch before every Dutch one, and a finished
   run has fetched each year once and each entry once per language.  A
   discovery-only run fetches no law page and writes no seed file.  A
   content-only run fetches no year index, and the entries it processes
   are the ones read from the index file. *)
C19_StagesInOrder ==
    /\ (options.phase = "all" /\ options.lang = "both") =>
           /\ \A i, j \in 1..Len(fetchLog) :
                  i < j => StageRank(fetchLog[i]) <= StageRank(fetchLog[j])
           /\ pc \in {"french", "dutch", "done"} =>
                  entries = Limited(allEntries, options.limit)
           /\ pc = "done" =>
                  /\ Fetches("index") = options.yearEnd - options.yearStart + 1
                  /\ Fetches("fr") = Len(entries)
                  /\ Fetches("nl") = Len(entries)
    /\ options.phase = "discovery" =>
           /\ Fetches("fr") = 0
           /\ Fetches("nl") = 0
           /\ seedFiles = {}
    /\ options.phase = "content" =>
           /\ Fetches("index") = 0
           /\ pc \in {"french", "dutch", "done"} =>
                  entries = Limited(indexFile.entries, options.limit)

\* a run of all phases and both languages has finished over two years and
\* two laws
C19_Witness ==
    /\ pc = "done"
    /\ options.phase = "all"
    /\ options.lang = "both"
    /\ fetchLog = <<"index", "index", "fr", "fr", "nl", "nl">>

----------------------------------------------------------------------------
(* Properties of the schedule of a pipeline run *)

(* C25: fetches are strictly sequential: a call of rateLimitedFetch starts
   only when no other call is under way, so the rate-limit wait, the
   attempts and the backoff waits of one call are over before the next call
   starts, across years, laws and stages; the limiter's clock is reset only
   by the one call under way. *)
C25_OneFetchAtATime ==
    [][/\ Len(fetchLog') > Len(fetchLog) => fpc = "idle"
       /\ elapsed' < elapsed => fpc \in {"idle", "ratewait"}]_vars

\* a second call has its request in flight after the first call failed
C25_Witness ==
    /\ Len(fetchLog) = 2
    /\ fpc = "inflight"
    /\ yearEntries = << <<>> >>
    /\ handled = "caught"

(* C26: within one run every seed file is written at most once: no two
   entries of a content stage write the same file, and the French and the
   Dutch stage never write the same file; so the seed directory holds one
   file for every entry the stages have counted as processed. *)
C26_ArtifactWrittenOnce ==
    Cardinality(seedFiles) = french.processed + dutch.processed

\* the first cap elements of a list, the whole list when it has fewer or
\* when the cap is 0
Capped(list, cap) ==
    IF cap = 0 THEN list
    ELSE [k \in 1..(IF cap < Len(list) THEN cap ELSE Len(list)) |-> list[k]]

(* C27: with a cap L > 0 the index file that discovery writes holds the
   first L entries accumulated, in discovery order (all of them when fewer
   were found), and a content stage takes up at most L entries, in a full
   run and in a content-only run over the index file; with L = 0 nothing is
   cut. *)
C27_CapApplied ==
    /\ (options.phase \in {"all", "discovery"} /\ pc \in {"french", "dutch", "done"}) =>
           /\ indexFile.exists
           /\ indexFile.entries = Capped(allEntries, options.limit)
           /\ entries = indexFile.entries
    /\ (options.phase = "content" /\ pc \in {"french", "dutch", "done"}) =>
           entries = Capped(indexFile.entries, options.limit)
    /\ options.limit > 0 =>
           /\ Fetches("fr") <= options.limit
           /\ Fetches("nl") <= options.limit
    /\ pc \in {"french", "dutch", "done"} =>
           /\ Fetches("fr") <= Len(entries)
           /\ Fetches("nl") <= Len(entries)

\* a full run with cap 1 has found two laws, saved the first and fetched it
\* once in each language
C27_Witness ==
    /\ pc = "done"
    /\ options.phase = "all"
    /\ options.limit = 1
    /\ Len(allEntries) = 2
    /\ indexFile.entries = <<allEntries[1]>>
    /\ Fetches("fr") = 1
    /\ Fetches("nl") = 1

(* C29: in runDutchContent a failed entry is counted as skipped only if
   the failure that ended its fetch was HTTP 404: an entry whose fetch
   ended with any other error leaves the skipped counter as it was,
   whatever digits its identifier, date or URL contain. *)
C29_SkippedOnlyOnNotFound ==
    (pc = "dutch" /\ handled = "othererror") =>
        /\ dutch.failed = before.counters.failed + 1
        /\ dutch.skipped = before.counters.skipped

----------------------------------------------------------------------------
(* One CallTool request to the tool server *)

QuotedPhrase == <<Quote, "p", "r", "o", "t", "e", "c", "t", "i", "o", "n", " ", "d", "o", "n", "n", "U233", "e", "s", Quote>>

BooleanQuery == <<"l", "o", "i", " ", "A", "N", "D", " ", "w", "e", "t">>

NegatedQuery == <<"l", "o", "i", " ", "N", "O", "T", " ", "w", "e", "t">>

PrefixQuery == <<"p", "r", "o", "t", "*">>

AccentedWord == <<"d", "o", "n", "n", "U233", "e", "s">>

AccentOnly == <<"U233", " ", "l", "o", "i">>

PlainWords == <<"l", "o", "i", " ", "w", "e", "t">>

SmartQuoted == <<"U8220", "v", "i", "e", "-", "p", "r", "i", "v", "U233", "e", "U8221", " ", "(", "a", "r", "t", ")">>

OneLetter == <<"a">>

Blank == <<" ", " ">>

Queries ==
    {QuotedPhrase, BooleanQuery, NegatedQuery, PrefixQuery, AccentedWord,
     AccentOnly, PlainWords, SmartQuoted, OneLetter, Blank}

\* the limits a caller supplies: none, and numbers around the bounds
Limits ==
    {NotGiven}
    \cup {Given(n) : n \in {-1, 0, 1, 2, STANCE_MAX_LIMIT, STANCE_MAX_LIMIT + 1,
                            MAX_LIMIT, MAX_LIMIT + 1}}

\* the dates a caller asks for, as days
AsOfDates == {Given(d) : d \in 1..MaxDay}

\* the rows of legal_provisions
CurrentRows ==
    {[id |-> 1, document_id |-> "d1", provision_ref |-> "art1",
      valid_from |-> Null, valid_to |-> Null, version |-> FALSE],
     [id |-> 2, document_id |-> "d1", provision_ref |-> "art2",
      valid_from |-> Null, valid_to |-> Null, version |-> FALSE]}

\* a row of legal_provision_versions
Version(id, ref, from, to) ==
    [id |-> id, document_id |-> "d1", provision_ref |-> ref,
     valid_from |-> from, valid_to |-> to, version |-> TRUE]

\* legal_provision_versions: empty, one version valid for a day, or versions
\* of art1 that follow one another, with a version of art2 and a second
\* copy of a version
VersionTables ==
    {{},
     {Version(1, "art1", Given(2), Given(3))},
     {Version(1, "art1", Null, Given(2)), Version(2, "art1", Given(2), Null)},
     {Version(1, "art1", Null, Given(2)), Version(2, "art1", Given(2), Null),
      Version(3, "art2", Given(1), Given(3))},
     {Version(1, "art1", Given(2), Null), Version(2, "art1", Given(2), Null),
      Version(3, "art1", Given(1), Null)}}

\* the rows of case_law, and of definitions
SomeRows == {[id |-> 1], [id |-> 2], [id |-> 3]}

Databases ==
    [caseLaw : BOOLEAN, definitions : BOOLEAN, context : BOOLEAN,
     broken : BOOLEAN, faulty : BOOLEAN, fts : {"all", "none", "unquoted"},
     provisions : {CurrentRows}, versions : VersionTables,
     decisions : {SomeRows}, terms : {SomeRows}]

Calls ==
    [name : {"search_legislation", "build_legal_stance"},
     args : [given : {TRUE}, text : Queries \cup {Undefined}, limit : Limits,
             asOfDate : AsOfDates \cup {NotGiven}]]
    \cup [name : {"search_case_law", "get_definitions"},
          args : [given : {TRUE}, text : Queries \cup {Undefined}, limit : Limits,
                  asOfDate : {NotGiven}]]
    \cup [name : OtherTools
                 \cup {"search_legislation", "build_legal_stance",
                       "search_case_law", "get_definitions", "list_sources",
                       "about", "no_such_tool"},
          args : {NoArguments}]

\* what of the database the call can meet
Met(c, d) ==
    /\ d.caseLaw \/ c.name = "search_case_law"
    /\ d.definitions \/ c.name = "get_definitions"
    /\ d.context \/ c.name = "about"
    /\ ~d.faulty \/ c.name \in OtherTools \cup {"about"}
    /\ d.versions = {} \/ c.args.asOfDate.given

InitServer ==
    /\ call \in Calls
    /\ db \in Databases
    /\ Met(call, db)
    /\ statements = <<>>
    /\ response = [kind |-> "none"]
    /\ IdleClean
    /\ IdleDedupe
    /\ IdleArticles
    /\ IdleIndex
    /\ NoPipeline

\* the handler of CallToolRequestSchema runs for the request
CallTool ==
    /\ response = [kind |-> "none"]
    /\ LET done == CallToolHandler(call.name, call.args)
       IN  /\ response' = done.response
           /\ statements' = done.ran
    /\ UNCHANGED <<call, db, cleanVars, dedupeVars, articleVars, indexVars,
                   pipeVars>>

NextServer == CallTool

SpecServer == InitServer /\ [][NextServer]_vars

\* the request has been answered
Answered == response # [kind |-> "none"]

\* the request is a search_legislation call with a query
SearchCall ==
    /\ call.name = "search_legislation"
    /\ call.args.given
    /\ call.args.text # Undefined

(* C21: a search_legislation query written in FTS5 syntax (a double-quoted
   phrase, AND, OR, NOT, or a trailing asterisk) reaches every MATCH of the
   request
   as it was written, not rewritten into per-token prefix terms. *)
C21_ExplicitSyntaxPassedThrough ==
    (Answered /\ SearchCall /\ EXPLICIT_FTS_SYNTAX(Trim(call.args.text))) =>
        \A k \in 1..Len(statements) :
            statements[k].match = Trim(call.args.text)

\* the rows a result response carries
ResultRows == response.content[1].text.json

\* the request was answered with a result
Succeeded == Answered /\ "isError" \notin DOMAIN response

(* C22: a search_legislation call with an as_of_date returns only versions
   of provisions that are valid on that date (valid_from absent or not after
   it, valid_to absent or after it), at most one for a document and
   reference; the current provisions are searched only when the call has no
   as_of_date. *)
C22_AsOfDateReturnsVersions ==
    (Succeeded /\ SearchCall) =>
        /\ \A k \in 1..Len(statements) :
               statements[k].table = "provisions_fts" => ~call.args.asOfDate.given
        /\ call.args.asOfDate.given =>
               /\ \A k \in 1..Len(ResultRows) :
                      /\ ResultRows[k].version
                      /\ ValidOn(ResultRows[k], call.args.asOfDate)
               /\ \A j, k \in 1..Len(ResultRows) :
                      (/\ ResultRows[j].document_id = ResultRows[k].document_id
                       /\ ResultRows[j].provision_ref = ResultRows[k].provision_ref)
                      => j = k

\* the least, the default and the greatest row limit of the tool called
LimitBounds ==
    IF call.name = "build_legal_stance"
    THEN [min |-> 1, default |-> STANCE_DEFAULT_LIMIT, max |-> STANCE_MAX_LIMIT]
    ELSE [min |-> 1, default |-> DEFAULT_LIMIT, max |-> MAX_LIMIT]

(* C23: whatever limit the caller supplies (none, zero, negative, oversized),
   the row limit of every statement of search_legislation, search_case_law
   and get_definitions lies in 1..50 and is 10 when none is supplied, and
   that of build_legal_stance lies in 1..20 and is 5 when none is
   supplied. *)
C23_LimitWithinBounds ==
    Answered =>
        \A k \in 1..Len(statements) :
            /\ statements[k].limit >= LimitBounds.min
            /\ statements[k].limit <= LimitBounds.max
            /\ ~call.args.limit.given => statements[k].limit = LimitBounds.default

\* build_legal_stance was asked for 51 rows and has run a statement for 20
C23_Witness ==
    /\ Answered
    /\ call.name = "build_legal_stance"
    /\ call.args.limit = Given(MAX_LIMIT + 1)
    /\ statements # <<>>
    /\ statements[1].limit = STANCE_MAX_LIMIT

\* the names the switch of the handler knows
KnownTools ==
    OtherTools \cup {"search_legislation", "build_legal_stance", "list_sources",
                     "search_case_law", "get_definitions", "about"}

\* what the implementation of the tool called does with the arguments
ToolOutcome ==
    IF call.name = "search_legislation" THEN searchLegislation(call.args)
    ELSE IF call.name = "build_legal_stance" THEN buildLegalStance(call.args)
    ELSE IF call.name = "search_case_law" THEN searchCaseLaw(call.args)
    ELSE IF call.name = "get_definitions" THEN getDefinitions(call.args)
    ELSE IF call.name = "list_sources" THEN listSources
    ELSE OtherTool(call.args)

\* the cases that are answered with an error
MustFail ==
    \/ call.name \notin KnownTools
    \/ call.name = "search_case_law" /\ (~db.caseLaw \/ db.broken)
    \/ call.name = "get_definitions" /\ (~db.definitions \/ db.broken)
    \/ call.name = "about" /\ ~db.context
    \/ ToolOutcome.thrown

(* C24: the CallTool handler never throws.  An unknown tool, search_case_law
   without the case_law capability, get_definitions without the definitions
   table, about without a context, and a tool that raises are each answered
   with isError = true; every other call is answered without isError, with
   the serialized result of the tool. *)
C24_HandlerNeverThrows ==
    Answered =>
        IF MustFail
        THEN /\ DOMAIN response = {"content", "isError"}
             /\ response.isError = TRUE
        ELSE response = ResultResponse(ToolOutcome.results)

\* a tool has raised and the request was answered with an error
C24_Witness ==
    /\ Answered
    /\ call.name = "get_provision"
    /\ db.faulty
    /\ "isError" \in DOMAIN response
    /\ response.isError


\* the letters with a diacritic that the queries are written with
AccentedLetters == {"U233"}

IsLetter(c) ==
    c \in AccentedLetters \/ \E k \in 1..26 : LowerLetters[k] = Lower(c)

\* the terms of a MATCH argument built from tokens, without the OR between
\* them
TermsOf(match) == SelectSeq(SplitWords(match), LAMBDA w : w # <<"O", "R">>)

\* the word of a term, without its quotes and its asterisk
TermWord(term) == SelectSeq(term, LAMBDA c : c # Quote /\ c # "*")

\* the sanitized query of the request
SanitizedQuery == Trim(sanitizeFtsInput(call.args.text))

(* C30: for a search_legislation query that, once sanitized, has tokens and
   no explicit FTS syntax, every MATCH of the request has one term for each
   token of the query, in order; each term is non-empty and keeps all the
   letters of its token, the accented letters of French and Dutch words
   included. *)
C30_TermsKeepLetters ==
    (/\ Answered
     /\ SearchCall
     /\ ~EXPLICIT_FTS_SYNTAX(SanitizedQuery)
     /\ SplitWords(SanitizedQuery) # <<>>) =>
        \A k \in 1..Len(statements) :
            LET terms == TermsOf(statements[k].match)
                words == SplitWords(SanitizedQuery)
            IN  /\ Len(terms) = Len(words)
                /\ \A j \in 1..Len(terms) :
                       /\ TermWord(terms[j]) # <<>>
                       /\ SelectSeq(TermWord(terms[j]), IsLetter)
                              = SelectSeq(words[j], IsLetter)

=============================================================================
